---- MODULE Spec2Model ----
(***************************************************************************)
(* Contract_Sync: the document ingestion and schedule-extraction pipeline  *)
(* (app/services/file_service.py, app/parsers/*, app/services/             *)
(* gemini_service.py, app/api/endpoints/upload.py).                        *)
(*                                                                         *)
(* All byte sizes (uploads, chunks, images) are counted in MiB; of a chunk  *)
(* only the leading four bytes are represented.  Texts are represented by  *)
(* their character counts.  Exceptions are named by their Python class.    *)
(***************************************************************************)
EXTENDS Integers, Sequences, FiniteSets, TLC

\* ------------------------------------------------------------------ bounds
\* file.read(8192): size of one chunk (8 KiB in the program)
ChunkSize == 4
\* self.max_file_size (50 MiB in the program)
MaxFileSize == 9

\* ------------------------------------------------------------ small helpers
None == "None"

Min(a, b) == IF a < b THEN a ELSE b

\* bytes.startswith
StartsWith(chunk, m) ==
    /\ Len(m) <= Len(chunk)
    /\ \A i \in 1..Len(m) : chunk[i] = m[i]

\* ------------------------------------------------------- exception classes
\* the classes raised along the pipeline, with their Python base class
ExceptionBase ==
    [ ValueError          |-> "Exception",
      JSONDecodeError     |-> "ValueError",
      ValidationError     |-> "ValueError",
      UnicodeDecodeError  |-> "ValueError",
      TypeError           |-> "Exception",
      AttributeError      |-> "Exception",
      BadZipFile          |-> "Exception",
      FileDataError       |-> "Exception",
      UnidentifiedImageError |-> "Exception",
      HTTPException       |-> "Exception",
      ClientDisconnect    |-> "Exception",
      ModelError          |-> "Exception",
      Exception           |-> "BaseException" ]

\* the status a handled exception is answered with (upload.py, the two
\* except clauses): except ValueError -> 400, except Exception -> 500
ExceptValueError(cls) ==
    \/ cls = "ValueError"
    \/ ExceptionBase[cls] = "ValueError"

HandlerStatus(cls) == IF ExceptValueError(cls) THEN 400 ELSE 500

\* ------------------------------------------------------------ ParserFactory
\* ParserFactory._parsers: extension -> parser class
_parsers ==
    [ pdf  |-> "PDFParser",
      docx |-> "DocxParser",  doc  |-> "DocxParser",
      hwp  |-> "HWPParser",   hwpx |-> "HWPParser",
      jpg  |-> "ImageParser", jpeg |-> "ImageParser", png  |-> "ImageParser",
      tiff |-> "ImageParser", tif  |-> "ImageParser", bmp  |-> "ImageParser",
      webp |-> "ImageParser" ]

get_supported_extensions == DOMAIN _parsers

\* the suffixes an uploaded file name may carry (the dot is left out); "" is
\* a name without suffix, "txt" an unsupported one
Suffixes == get_supported_extensions \cup {"PDF", "Hwp", "txt", ""}

\* str.lower on the suffixes above
lower(suffix) ==
    CASE suffix = "PDF" -> "pdf"
      [] suffix = "Hwp" -> "hwp"
      [] OTHER -> suffix

\* -------------------------------------------------------------- FileService
\* FileService.MAGIC_BYTES: extension -> accepted leading byte strings
\* (".doc" has no entry)
MAGIC_BYTES ==
    [ pdf  |-> { <<37, 80, 68, 70>> },
      docx |-> { <<80, 75, 3, 4>> },
      hwp  |-> { <<208, 207, 17, 224>>, <<80, 75, 3, 4>> },
      hwpx |-> { <<80, 75, 3, 4>> },
      jpg  |-> { <<255, 216, 255>> },
      jpeg |-> { <<255, 216, 255>> },
      png  |-> { <<137, 80, 78, 71>> },
      tiff |-> { <<73, 73, 42, 0>>, <<77, 77, 0, 42>> },
      tif  |-> { <<73, 73, 42, 0>>, <<77, 77, 0, 42>> },
      bmp  |-> { <<66, 77>> },
      webp |-> { <<82, 73, 70, 70>> } ]

\* self.MAGIC_BYTES.get(extension): None (here the empty set) without entry
expected_magics(extension) ==
    IF extension \in DOMAIN MAGIC_BYTES THEN MAGIC_BYTES[extension] ELSE {}

\* the magic-byte test of save_upload_file on the first chunk:
\* expected_magics and not any(chunk.startswith(m) for m in expected_magics)
MagicMismatch(extension, chunk) ==
    /\ expected_magics(extension) # {}
    /\ ~ \E m \in expected_magics(extension) : StartsWith(chunk, m)

\* the size test of save_upload_file: total_size > self.max_file_size
TooLargeOffByChunk(total_size) == total_size > MaxFileSize + ChunkSize
TooLarge(total_size) == total_size > MaxFileSize

\* ---------------------------------------------------------------- base.py
\* a text is represented by its length and by whether it is all whitespace
EmptyText == [len |-> 0, blank |-> TRUE]

\* ParseResult(text, images)
ParseResult(text, images) == [text |-> text, images |-> images]

\* ParseResult.has_text: bool(self.text and self.text.strip())
has_text(pr) == pr.text.len > 0 /\ ~ pr.text.blank

\* ParseResult.has_images: bool(self.images)
has_images(pr) == Len(pr.images) > 0

\* the outcome of a call: an exception raised (its class and which raise
\* statement it comes from) or a value returned
Raise(cls, msg) == [raised |-> TRUE, exc |-> cls, msg |-> msg]

Return(v) == [raised |-> FALSE, value |-> v]

IsRaise(x) == x.raised

\* sep.join(parts) for texts: the parts and len(parts) - 1 separators, each
\* of sep_len whitespace characters
RECURSIVE SumField(_, _)
SumField(seq, fld) ==
    IF seq = <<>> THEN 0 ELSE seq[1][fld] + SumField(Tail(seq), fld)

join(sep_len, parts) ==
    IF parts = <<>> THEN EmptyText
    ELSE [len |-> SumField(parts, "len") + sep_len * (Len(parts) - 1),
          blank |-> \A i \in 1..Len(parts) : parts[i].blank]

\* str.strip() leaves something
NonBlank(t) == t.len > 0 /\ ~ t.blank

\* ----------------------------------------------------------- pdf_parser.py
\* A PDF document is a sequence of pages.  A page is
\*   [len |-> characters of its filtered, stripped text layer,
\*    mf  |-> how many of them match [가-힣a-zA-Z0-9],
\*    render |-> <<>> if get_pixmap raises, else the PNG sizes (MiB) at the
\*               scales 2.0, 1.5, 1.0]
TEXT_THRESHOLD == 100
TEXT_QUALITY_THRESHOLD == 50
MAX_IMAGE_PAGES == 20
MAX_IMAGE_BYTES_PER_PAGE == 4
MAX_TOTAL_IMAGE_BYTES == 18

\* the scale factors tried in order, times ten: IMAGE_DPI_SCALE, 1.5, 1.0
RenderScales == <<20, 15, 10>>

\* number of decimal digits of a page number below 100
Digits(n) == IF n < 10 THEN 1 ELSE 2

\* f"--- 페이지 {page_num + 1} ---\n{page_text}": 12 marker characters, the
\* digits and a newline before the page text
PageEntry(doc, n) ==
    [len |-> 13 + Digits(n) + doc[n].len, blank |-> FALSE,
     mf |-> doc[n].mf, body |-> doc[n].len]

\* the loop of parse over the pages: the entries of the non-empty pages
RECURSIVE text_pages(_, _)
text_pages(doc, n) ==
    IF n = 0 THEN <<>>
    ELSE IF doc[n].len > 0
         THEN Append(text_pages(doc, n - 1), PageEntry(doc, n))
         ELSE text_pages(doc, n - 1)

\* empty_page_count after the loop
empty_page_count(doc) == Cardinality({n \in 1..Len(doc) : doc[n].len = 0})

\* total_text = "\n\n".join(text_pages)
total_text(doc) == join(2, text_pages(doc, Len(doc)))

\* clean_text: re.sub removes every marker up to its newline, strip() removes
\* the newline of the first one; per page its text, between two pages "\n\n\n"
clean_text(doc) ==
    LET tp == text_pages(doc, Len(doc))
    IN  IF tp = <<>> THEN [len |-> 0, mf |-> 0]
        ELSE [len |-> SumField(tp, "body") + 3 * (Len(tp) - 1),
              mf  |-> SumField(tp, "mf")]

\* PDFParser._is_likely_scanned; the divisions are compared cross-multiplied:
\* len/page_count < 50 and meaningful/len < 0.3
_is_likely_scanned_no_ratio(text, page_count, empty_pages) ==
    \/ page_count = 0
    \/ empty_pages > 0
    \/ text.len < TEXT_QUALITY_THRESHOLD * page_count
_is_likely_scanned_no_empty(text, page_count, empty_pages) ==
    \/ page_count = 0
    \/ text.len < TEXT_QUALITY_THRESHOLD * page_count
    \/ (text.len > 0 /\ 10 * text.mf < 3 * text.len)
_is_likely_scanned(text, page_count, empty_pages) ==
    \/ page_count = 0
    \/ empty_pages > 0
    \/ text.len < TEXT_QUALITY_THRESHOLD * page_count
    \/ (text.len > 0 /\ 10 * text.mf < 3 * text.len)

\* PDFParser._render_page_optimized: the first scale whose PNG fits the
\* per-page ceiling, else the last one; raises when the page does not render
RenderFromFirstScaleOnly(page, k) ==
    [scale |-> RenderScales[k], size |-> page.render[k]]
RECURSIVE RenderFrom(_, _)
RenderFrom(page, k) ==
    IF page.render[k] <= MAX_IMAGE_BYTES_PER_PAGE \/ k = Len(RenderScales)
    THEN [scale |-> RenderScales[k], size |-> page.render[k]]
    ELSE RenderFrom(page, k + 1)

_render_page_optimized(page) ==
    IF page.render = <<>> THEN Raise("Exception", "render")
    ELSE Return(RenderFrom(page, 1))

\* PDFParser._render_pages_as_images: the loop from page_num (1-based) on,
\* with the images and total_bytes accumulated so far
RECURSIVE RenderLoopAppendFirst(_, _, _, _)
RenderLoopAppendFirst(doc, page_num, images, total_bytes) ==
    IF page_num > Min(Len(doc), MAX_IMAGE_PAGES) THEN images
    ELSE LET png == _render_page_optimized(doc[page_num])
         IN  IF IsRaise(png)
             THEN RenderLoopAppendFirst(doc, page_num + 1, images, total_bytes)
             ELSE LET appended == Append(images, [page |-> page_num,
                                                  scale |-> png.value.scale,
                                                  size |-> png.value.size])
                  IN  IF total_bytes + png.value.size > MAX_TOTAL_IMAGE_BYTES
                      THEN appended
                      ELSE RenderLoopAppendFirst(doc, page_num + 1, appended,
                               total_bytes + png.value.size)
RECURSIVE RenderLoopSkipAndContinue(_, _, _, _)
RenderLoopSkipAndContinue(doc, page_num, images, total_bytes) ==
    IF page_num > Min(Len(doc), MAX_IMAGE_PAGES) THEN images
    ELSE LET png == _render_page_optimized(doc[page_num])
         IN  IF IsRaise(png)
             THEN RenderLoopSkipAndContinue(doc, page_num + 1, images,
                                            total_bytes)
             ELSE IF total_bytes + png.value.size > MAX_TOTAL_IMAGE_BYTES
                  THEN RenderLoopSkipAndContinue(doc, page_num + 1, images,
                                                 total_bytes)
                  ELSE RenderLoopSkipAndContinue(doc, page_num + 1,
                           Append(images, [page |-> page_num,
                                           scale |-> png.value.scale,
                                           size |-> png.value.size]),
                           total_bytes + png.value.size)
RECURSIVE RenderLoop(_, _, _, _)
RenderLoop(doc, page_num, images, total_bytes) ==
    IF page_num > Min(Len(doc), MAX_IMAGE_PAGES) THEN images
    ELSE LET png == _render_page_optimized(doc[page_num])
         IN  IF IsRaise(png)
             THEN RenderLoop(doc, page_num + 1, images, total_bytes)
             ELSE IF total_bytes + png.value.size > MAX_TOTAL_IMAGE_BYTES
                  THEN images
                  ELSE RenderLoop(doc, page_num + 1,
                           Append(images, [page |-> page_num,
                                           scale |-> png.value.scale,
                                           size |-> png.value.size]),
                           total_bytes + png.value.size)

_render_pages_as_images(doc) == RenderLoop(doc, 1, <<>>, 0)

\* the branch of PDFParser.parse: TRUE when the text-only result is returned
TextOnly(doc) ==
    /\ clean_text(doc).len >= TEXT_THRESHOLD
    /\ ~ _is_likely_scanned(clean_text(doc), Len(doc), empty_page_count(doc))

\* PDFParser.parse on a document fitz can open; rendered tells whether
\* _render_pages_as_images was called
PDFParser_parse(doc) ==
    LET t == total_text(doc)
        text == [len |-> t.len, blank |-> t.blank]
    IN  IF TextOnly(doc)
        THEN [text |-> text, images |-> <<>>, rendered |-> FALSE]
        ELSE [text |-> (IF text_pages(doc, Len(doc)) # <<>> THEN text
                        ELSE EmptyText),
              images |-> _render_pages_as_images(doc),
              rendered |-> TRUE]

\* ---------------------------------------------------------- docx_parser.py
\* A DOCX body is [kind |-> "unreadable"] (Document() raises) or
\*   [kind |-> "docx",
\*    paragraphs |-> the para.text read before any error in the loop,
\*    tables     |-> the _extract_table texts read before any error]
RECURSIVE NonBlankOnly(_)
NonBlankOnly(texts) ==
    IF texts = <<>> THEN <<>>
    ELSE IF NonBlank(texts[1])
         THEN <<texts[1]>> \o NonBlankOnly(Tail(texts))
         ELSE NonBlankOnly(Tail(texts))

\* f"\n[표]\n{table_text}"
TableEntry(t) == [len |-> 5 + t.len, blank |-> FALSE]

DocxParser_parse(body) ==
    IF body.kind = "unreadable" THEN Raise("ValueError", "docx_open")
    ELSE LET paras  == NonBlankOnly(body.paragraphs)
             tabs   == NonBlankOnly(body.tables)
             text_content ==
                 paras \o [i \in 1..Len(tabs) |-> TableEntry(tabs[i])]
         IN  Return(ParseResult(join(2, text_content), <<>>))

\* ----------------------------------------------------------- hwp_parser.py
ZipSignature == <<80, 75, 3, 4>>

\* HWPParser._is_hwpx: the first four bytes of the saved file
_is_hwpx(head) == head = ZipSignature

\* An HWPX body is [kind |-> "badzip"] (ZipFile raises) or [kind |-> "hwpx",
\* sections |-> the Contents/section*.xml members in name order], a section
\* being [utf8 |-> whether decode succeeds, len, blank |-> the text that
\* _extract_text_from_xml returns for it (empty on an XML parse error)]
RECURSIVE _parse_hwpx_from(_)
_parse_hwpx_from(sections) ==
    IF sections = <<>> THEN Return(<<>>)
    ELSE IF ~ sections[1].utf8 THEN Raise("UnicodeDecodeError", "hwpx")
    ELSE LET rest == _parse_hwpx_from(Tail(sections))
         IN  IF IsRaise(rest) THEN rest
             ELSE IF NonBlank(sections[1])
                  THEN Return(<<sections[1]>> \o rest.value)
                  ELSE rest

_parse_hwpx(body) ==
    IF body.kind = "badzip" THEN Raise("BadZipFile", "hwpx")
    ELSE LET text_content == _parse_hwpx_from(body.sections)
         IN  IF IsRaise(text_content) THEN text_content
             ELSE Return(join(2, text_content.value))

\* A legacy body is [kind |-> "notole"] (isOleFile is false), [kind |->
\* "noheader"] (no FileHeader stream) or [kind |-> "ole", sections |-> the
\* texts _extract_text_from_bodytext returns per BodyText section]
_parse_hwp_ole(body) ==
    IF body.kind = "notole" THEN Raise("ValueError", "hwp_notole")
    ELSE IF body.kind = "noheader" THEN Raise("ValueError", "hwp_noheader")
    ELSE Return(join(2, NonBlankOnly(body.sections)))

\* HWPParser.parse: the HWPX branch lets exceptions through, the OLE branch
\* wraps every exception in a ValueError
HWPParser_parse(head, body) ==
    IF _is_hwpx(head)
    THEN LET text == _parse_hwpx(body)
         IN  IF IsRaise(text) THEN text
             ELSE Return(ParseResult(text.value, <<>>))
    ELSE LET text == _parse_hwp_ole(body)
         IN  IF IsRaise(text) THEN Raise("ValueError", "hwp_parse")
             ELSE Return(ParseResult(text.value, <<>>))

\* --------------------------------------------------------- image_parser.py
MAX_IMAGE_SIZE == 4

\* max_dim of _resize_image, in pixels
max_dim == 2048

Max(a, b) == IF a > b THEN a ELSE b

\* An image body is
\*   [decodable |-> PIL can open and load the bytes,
\*    width, height |-> the dimensions of the image in pixels,
\*    png       |-> size of the PNG the bytes convert to,
\*    resized   |-> size of the PNG written by _resize_image]
\* An image buffer is [size, fmt |-> "png" or "original" (the bytes of the
\* file), resized |-> written by _resize_image, width, height].

\* ImageParser._convert_to_png
_convert_to_png(body) ==
    IF body.decodable
    THEN Return([size |-> body.png, fmt |-> "png", resized |-> FALSE,
                 width |-> body.width, height |-> body.height])
    ELSE Raise("UnidentifiedImageError", "convert")

\* ImageParser._resize_image: int(img.width * ratio), int(img.height * ratio)
\* with ratio = min(max_dim / width, max_dim / height, 1.0); Image.resize
\* raises ValueError for a dimension of 0
_resize_image(body) ==
    IF ~ body.decodable THEN Raise("UnidentifiedImageError", "resize")
    ELSE LET longer == Max(body.width, body.height)
             width  == IF longer > max_dim
                       THEN (body.width * max_dim) \div longer
                       ELSE body.width
             height == IF longer > max_dim
                       THEN (body.height * max_dim) \div longer
                       ELSE body.height
         IN  IF width = 0 \/ height = 0 THEN Raise("ValueError", "resize")
             ELSE Return([size |-> body.resized, fmt |-> "png",
                          resized |-> TRUE,
                          width |-> width, height |-> height])

\* ImageParser.parse on a file of nbytes
ImageParser_parse(extension, nbytes, body) ==
    LET original == [size |-> nbytes, fmt |-> "original", resized |-> FALSE,
                     width |-> body.width, height |-> body.height]
        png == _convert_to_png(body)
        img_bytes == IF extension # "png" /\ ~ IsRaise(png)
                     THEN png.value ELSE original
    IN  IF img_bytes.size > MAX_IMAGE_SIZE
        THEN LET result == _resize_image(body)
             IN  IF IsRaise(result) THEN result
                 ELSE Return(ParseResult(EmptyText, <<result.value>>))
        ELSE Return(ParseResult(EmptyText, <<img_bytes>>))

\* ---------------------------------------------- FileService.parse_file
\* ParserFactory.get_parser(extension).parse(file_path) on the saved file
\* (head: its first bytes, nbytes: its size, body: what the parser finds)
parse_file(extension, head, nbytes, body) ==
    CASE _parsers[extension] = "PDFParser" ->
            IF body.kind = "broken" THEN Raise("FileDataError", "pdf_open")
            ELSE LET r == PDFParser_parse(body.pages)
                 IN  Return(ParseResult(r.text, r.images))
      [] _parsers[extension] = "DocxParser" -> DocxParser_parse(body)
      [] _parsers[extension] = "HWPParser" -> HWPParser_parse(head, body)
      [] _parsers[extension] = "ImageParser" ->
            ImageParser_parse(extension, nbytes, body)

\* ------------------------------------------------------- gemini_service.py
\* bound: most schedule items and most tasks in one model response
MaxItems == 2

\* The reply of the model call is
\*   [call |-> "error" (generate_content_async raises) or "ok",
\*    json |-> "invalid" (not JSON), "array" (JSON, not an object), "object",
\*    contract_schedule |-> [key |-> "absent", "null" or "object",
\*         fields |-> "null" (every field null), "ok" or "bad" (a field of
\*                    the wrong type),
\*         schedules |-> per schedule item "ok" or "bad"],
\*    task_list |-> [key |-> "absent" or "list", items |-> per task "ok" or
\*                   "bad"],
\*    raw_text |-> the text of the raw_text field]
NoneValue == [kind |-> "None"]

\* ContractSchedule(**schedule_data): pydantic validates the fields and every
\* ScheduleItem, raising ValidationError (a ValueError) on the first bad one
ContractSchedule(schedule_data) ==
    IF \/ schedule_data.fields = "bad"
       \/ \E i \in 1..Len(schedule_data.schedules) :
              schedule_data.schedules[i] = "bad"
    THEN Raise("ValidationError", "contract_schedule")
    ELSE Return([kind |-> "ContractSchedule",
                 fields |-> schedule_data.fields,
                 schedules |-> schedule_data.schedules])

\* [TaskItem(**task) for task in task_data]
TaskItemsSkippingBad(task_data) ==
    Return([kind |-> "list",
            items |-> SelectSeq(task_data, LAMBDA t : t = "ok")])
TaskItems(task_data) ==
    IF \E i \in 1..Len(task_data) : task_data[i] = "bad"
    THEN Raise("ValidationError", "task_list")
    ELSE Return([kind |-> "list", items |-> task_data])

\* result.get("contract_schedule", {})
schedule_data(result) ==
    IF result.contract_schedule.key = "absent"
    THEN [key |-> "object", fields |-> "null", schedules |-> <<>>]
    ELSE result.contract_schedule

\* result.get("task_list", [])
task_data(result) ==
    IF result.task_list.key = "absent" THEN <<>> ELSE result.task_list.items

\* GeminiService.extract_schedule after the model call has answered reply
extract_schedule(reply) ==
    IF reply.call = "error" THEN Raise("ModelError", "model_call")
    ELSE IF reply.json = "invalid" THEN Raise("JSONDecodeError", "json")
    ELSE IF reply.json = "array" THEN Raise("AttributeError", "json_get")
    ELSE IF schedule_data(reply).key = "null"
         THEN Raise("TypeError", "contract_schedule")
    ELSE LET contract_schedule == ContractSchedule(schedule_data(reply))
             task_list == TaskItems(task_data(reply))
         IN  IF IsRaise(contract_schedule) THEN contract_schedule
             ELSE IF IsRaise(task_list) THEN task_list
             ELSE Return([contract_schedule |-> contract_schedule.value,
                          task_list |-> task_list.value,
                          extracted_text |-> reply.raw_text])

\* ------------------------------------------------------------------ inputs
T(n) == [len |-> n, blank |-> FALSE]

Blank(n) == [len |-> n, blank |-> TRUE]

Page(len, mf, render) == [len |-> len, mf |-> mf, render |-> render]

\* leading four bytes of the files that are uploaded: the signatures of
\* MAGIC_BYTES (JPEG and BMP with the bytes that follow) and "<htm"
FullHeads ==
    { <<37, 80, 68, 70>>, <<80, 75, 3, 4>>, <<208, 207, 17, 224>>,
      <<255, 216, 255, 224>>, <<137, 80, 78, 71>>, <<73, 73, 42, 0>>,
      <<77, 77, 0, 42>>, <<66, 77, 54, 0>>, <<82, 73, 70, 70>>,
      <<60, 104, 116, 109>> }

UploadSizes ==
    {0, 1, MaxFileSize, MaxFileSize + 1, MaxFileSize + ChunkSize + 1}

PdfBodies ==
    { [kind |-> "broken"] } \cup
    { [kind |-> "pdf", pages |-> ps] : ps \in
        { <<>>,
          << Page(200, 150, <<1, 1, 1>>) >>,
          << Page(60, 50, <<1, 1, 1>>) >>,
          << Page(0, 0, <<1, 1, 1>>) >>,
          << Page(0, 0, <<>>) >>,
          << Page(0, 0, <<20, 19, 19>>) >>,
          << Page(200, 150, <<>>), Page(0, 0, <<>>) >>,
          << Page(200, 150, <<5, 3, 2>>), Page(0, 0, <<6, 5, 5>>) >> } }

DocxBodies ==
    { [kind |-> "unreadable"] } \cup
    { [kind |-> "docx", paragraphs |-> ps, tables |-> ts] :
        ps \in { <<>>, <<Blank(3)>>, <<T(40), Blank(1), T(20000)>> },
        ts \in { <<>>, <<Blank(2)>>, <<T(30)>> } }

HwpxBodies ==
    { [kind |-> "badzip"] } \cup
    { [kind |-> "hwpx", sections |-> ss] : ss \in
        { <<>>,
          << [utf8 |-> TRUE, len |-> 0, blank |-> TRUE] >>,
          << [utf8 |-> TRUE, len |-> 80, blank |-> FALSE] >>,
          << [utf8 |-> TRUE, len |-> 80, blank |-> FALSE],
             [utf8 |-> FALSE, len |-> 0, blank |-> TRUE] >> } }

OleBodies ==
    { [kind |-> "notole"], [kind |-> "noheader"] } \cup
    { [kind |-> "ole", sections |-> ss] :
        ss \in { <<>>, <<Blank(4)>>, <<T(70), Blank(4)>> } }

ImageBodies ==
    { [kind |-> "image", decodable |-> FALSE, png |-> 0, resized |-> 0,
       width |-> 0, height |-> 0] } \cup
    { [kind |-> "image", decodable |-> TRUE, png |-> 3, resized |-> 2,
       width |-> 3000, height |-> 2000],
      [kind |-> "image", decodable |-> TRUE, png |-> 6, resized |-> 2,
       width |-> 3000, height |-> 2000],
      [kind |-> "image", decodable |-> TRUE, png |-> 6, resized |-> 5,
       width |-> 1000, height |-> 800] }

\* what the parser of the extension can find in a file with this head
BodiesFor(extension, head, size) ==
    IF extension \notin get_supported_extensions THEN { [kind |-> "none"] }
    ELSE CASE _parsers[extension] = "PDFParser" ->
                IF head = <<37, 80, 68, 70>> THEN PdfBodies
                ELSE { [kind |-> "broken"] }
           [] _parsers[extension] = "DocxParser" ->
                IF head = ZipSignature THEN DocxBodies
                ELSE { [kind |-> "unreadable"] }
           [] _parsers[extension] = "HWPParser" ->
                IF head = ZipSignature THEN HwpxBodies
                ELSE IF head = <<208, 207, 17, 224>> THEN OleBodies
                ELSE { [kind |-> "notole"] }
           [] _parsers[extension] = "ImageParser" ->
                IF size = 0 THEN {b \in ImageBodies : ~ b.decodable}
                ELSE ImageBodies

\* an upload: the suffix of its file name, its first bytes, its size and
\* what a parser finds in it
Uploads ==
    UNION { UNION { UNION {
        { [suffix |-> sfx, head |-> SubSeq(h, 1, Min(Len(h), 4 * n)),
           size |-> n, body |-> b] :
            b \in BodiesFor(lower(sfx), SubSeq(h, 1, Min(Len(h), 4 * n)), n) }
        : n \in UploadSizes } : h \in FullHeads } : sfx \in Suffixes }

\* await file.read(n) at offset: the next chunk, with its leading bytes
ReadBytes(u, offset, n) ==
    [size |-> Min(n, u.size - offset),
     head |-> IF offset = 0 THEN u.head ELSE <<0, 0, 0, 0>>]

ItemSeqs ==
    UNION { [1..n -> {"ok", "bad"}] : n \in 0..MaxItems }

Replies ==
    { [call |-> "error", json |-> "invalid",
       contract_schedule |->
           [key |-> "absent", fields |-> "null", schedules |-> <<>>],
       task_list |-> [key |-> "absent", items |-> <<>>],
       raw_text |-> EmptyText] } \cup
    { [call |-> "ok", json |-> j,
       contract_schedule |->
           [key |-> "absent", fields |-> "null", schedules |-> <<>>],
       task_list |-> [key |-> "absent", items |-> <<>>],
       raw_text |-> EmptyText] : j \in {"invalid", "array"} } \cup
    { [call |-> "ok", json |-> "object",
       contract_schedule |-> cs, task_list |-> tl, raw_text |-> rt] :
        cs \in { [key |-> k, fields |-> "null", schedules |-> <<>>] :
                    k \in {"absent", "null"} }
               \cup { [key |-> "object", fields |-> f, schedules |-> <<>>] :
                        f \in {"null", "bad"} }
               \cup { [key |-> "object", fields |-> "ok", schedules |-> ss] :
                        ss \in ItemSeqs },
        tl \in { [key |-> "absent", items |-> <<>>] }
               \cup { [key |-> "list", items |-> ts] : ts \in ItemSeqs },
        rt \in { EmptyText, T(300) } }

\* ------------------------------------------------------------------- state
VARIABLES
    files,      \* the upload directory: path -> size of the file, Absent if none
    used,       \* the names uuid.uuid4() has produced so far
    req,        \* per request: the locals of upload_and_extract_schedule and
                \* of save_upload_file, and the response
    pdf,        \* a call of PDFParser.parse: its document and its result
    call,       \* a call of one parser or service method on its own, or the
                \* last request to the contracts and teams endpoints: the
                \* method, its argument and its result
    db          \* the database: teams, team_members and contracts

vars == <<files, used, req, pdf, call, db>>

Requests == {"r1"}

Paths == {"u1"}

Absent == -1

NoUpload ==
    [suffix |-> "", head |-> <<>>, size |-> 0, body |-> [kind |-> "none"]]

NoParseResult == ParseResult(EmptyText, <<>>)

NoReply ==
    [call |-> "none", json |-> "invalid",
     contract_schedule |->
         [key |-> "absent", fields |-> "null", schedules |-> <<>>],
     task_list |-> [key |-> "absent", items |-> <<>>],
     raw_text |-> EmptyText]

NoResponse ==
    [status |-> 0, success |-> FALSE, contract_schedule |-> NoneValue,
     task_list |-> NoneValue, raw_text |-> EmptyText,
     exc |-> "None", msg |-> "None"]

InitRequest ==
    [pc |-> "idle", upload |-> NoUpload, extension |-> "",
     file_path |-> None, saved_path |-> None,
     total_size |-> 0, first_chunk |-> TRUE, offset |-> 0,
     parse_result |-> NoParseResult, parsed |-> FALSE,
     reply |-> NoReply, response |-> NoResponse]

NoPdfResult == [text |-> EmptyText, images |-> <<>>, rendered |-> FALSE]

NoFiles == [p \in Paths |-> Absent]

NoCall == [pc |-> "idle", op |-> "None", arg |-> NoneValue,
           result |-> NoneValue]

\* the tables before any row is written
NoRows == [teams |-> {}, team_members |-> {}, contracts |-> <<>>]

Init ==
    /\ files = NoFiles
    /\ used = {}
    /\ req = [r \in Requests |-> InitRequest]
    /\ pdf = [pc |-> "idle", doc |-> <<>>, result |-> NoPdfResult]
    /\ call = NoCall
    /\ db = NoRows

\* the except clauses of upload_and_extract_schedule: the HTTPException that
\* answers an exception raised in the try block
ErrorResponse(e) ==
    [status |-> HandlerStatus(e.exc), success |-> FALSE,
     contract_schedule |-> NoneValue, task_list |-> NoneValue,
     raw_text |-> EmptyText, exc |-> e.exc, msg |-> e.msg]

\* the request leaves the try block with exception e
Fail(r, e) ==
    req' = [req EXCEPT ![r].pc = "finally", ![r].response = ErrorResponse(e)]

\* uuid.uuid4(): a name that no earlier call has produced
uuid4_any(path) == TRUE
uuid4(path) == path \notin used

\* upload_and_extract_schedule up to the first read of save_upload_file:
\* the extension check, the fresh name and aiofiles.open(file_path, "wb")
Start(r, u, path) ==
    /\ req[r].pc = "idle"
    /\ LET extension == lower(u.suffix)
       IN  IF extension \notin get_supported_extensions
           THEN /\ req' = [req EXCEPT
                      ![r].pc = "finally", ![r].upload = u,
                      ![r].extension = extension,
                      ![r].response =
                          ErrorResponse(Raise("ValueError", "unsupported"))]
                /\ UNCHANGED <<files, used>>
           ELSE /\ uuid4(path)
                /\ used' = used \cup {path}
                /\ files' = [files EXCEPT ![path] = 0]
                /\ req' = [req EXCEPT
                      ![r].pc = "saving", ![r].upload = u,
                      ![r].extension = extension,
                      ![r].file_path = path]

\* one round of the while loop of save_upload_file: read a chunk, check the
\* magic bytes of the first one, check the size, write; the loop ends on
\* the empty chunk and the path is returned to the endpoint
ReadChunk(r) ==
    /\ req[r].pc = "saving"
    /\ LET q == req[r]
           chunk == ReadBytes(q.upload, q.offset, ChunkSize)
           total_size == q.total_size + chunk.size
       IN  IF chunk.size = 0
           THEN /\ req' = [req EXCEPT ![r].pc = "parsing",
                                      ![r].saved_path = q.file_path]
                /\ UNCHANGED <<files, used>>
           ELSE IF q.first_chunk /\ MagicMismatch(q.extension, chunk.head)
           THEN /\ Fail(r, Raise("ValueError", "mismatch"))
                /\ UNCHANGED <<files, used>>
           ELSE IF TooLarge(total_size)
           THEN /\ files' = [files EXCEPT ![q.file_path] = Absent]
                /\ req' = [req EXCEPT
                      ![r].pc = "finally", ![r].first_chunk = FALSE,
                      ![r].total_size = total_size,
                      ![r].response =
                          ErrorResponse(Raise("ValueError", "too_large"))]
                /\ UNCHANGED used
           ELSE /\ files' = [files EXCEPT ![q.file_path] = @ + chunk.size]
                /\ req' = [req EXCEPT
                      ![r].first_chunk = FALSE,
                      ![r].total_size = total_size,
                      ![r].offset = @ + chunk.size]
                /\ UNCHANGED used

\* await file.read(8192) raises (the upload stream breaks): the exception
\* leaves save_upload_file through the async with block, which closes the file
ReadError(r) ==
    /\ req[r].pc = "saving"
    /\ Fail(r, Raise("ClientDisconnect", "read"))
    /\ UNCHANGED <<files, used>>

\* the check of the endpoint after parse_file:
\* not parse_result.has_text and not parse_result.has_images
NoContentUnchecked(parse_result) == FALSE
NoContent(parse_result) ==
    ~ has_text(parse_result) /\ ~ has_images(parse_result)

\* step 2 of the endpoint: parse_file and the check for an empty result
Parse(r) ==
    /\ req[r].pc = "parsing"
    /\ LET q == req[r]
           result == parse_file(q.extension, q.upload.head,
                                files[q.saved_path], q.upload.body)
       IN  IF IsRaise(result) THEN Fail(r, result)
           ELSE IF NoContent(result.value)
           THEN req' = [req EXCEPT
                    ![r].pc = "finally", ![r].parsed = TRUE,
                    ![r].parse_result = result.value,
                    ![r].response =
                        ErrorResponse(Raise("HTTPException", "no_text"))]
           ELSE req' = [req EXCEPT
                    ![r].pc = "extracting", ![r].parsed = TRUE,
                    ![r].parse_result = result.value]
    /\ UNCHANGED <<files, used>>

\* step 3 of the endpoint: the model call answers reply; extract_schedule
\* and the ScheduleResponse
Extract(r, reply) ==
    /\ req[r].pc = "extracting"
    /\ LET q == req[r]
           result == extract_schedule(reply)
       IN  IF IsRaise(result)
           THEN req' = [req EXCEPT
                    ![r].pc = "finally", ![r].reply = reply,
                    ![r].response = ErrorResponse(result)]
           ELSE req' = [req EXCEPT
                    ![r].pc = "finally", ![r].reply = reply,
                    ![r].response =
                        [status |-> 200, success |-> TRUE,
                         contract_schedule |-> result.value.contract_schedule,
                         task_list |-> result.value.task_list,
                         raw_text |->
                             IF has_text(q.parse_result)
                             THEN q.parse_result.text
                             ELSE result.value.extracted_text,
                         exc |-> "None", msg |-> "None"]]
    /\ UNCHANGED <<files, used>>

\* FileService.cleanup: unlink the file if it exists
cleanup(fs, file_path) ==
    IF fs[file_path] # Absent THEN [fs EXCEPT ![file_path] = Absent] ELSE fs

\* the finally clause of the endpoint, after which the response is sent
FinallyCleanup(fs, saved_path) ==
    IF saved_path # None THEN cleanup(fs, saved_path) ELSE fs

Finally(r) ==
    /\ req[r].pc = "finally"
    /\ files' = FinallyCleanup(files, req[r].saved_path)
    /\ req' = [req EXCEPT ![r].pc = "done"]
    /\ UNCHANGED used

Next ==
    \/ \E r \in Requests, u \in Uploads, path \in Paths :
           Start(r, u, path) /\ UNCHANGED <<pdf, call, db>>
    \/ \E r \in Requests : ReadChunk(r) /\ UNCHANGED <<pdf, call, db>>
    \/ \E r \in Requests : ReadError(r) /\ UNCHANGED <<pdf, call, db>>
    \/ \E r \in Requests : Parse(r) /\ UNCHANGED <<pdf, call, db>>
    \/ \E r \in Requests, reply \in Replies :
           Extract(r, reply) /\ UNCHANGED <<pdf, call, db>>
    \/ \E r \in Requests : Finally(r) /\ UNCHANGED <<pdf, call, db>>

Spec == Init /\ [][Next]_vars

\* ------------------------------------ two upload requests at the same time
ConcRequests == {"r1", "r2"}

ConcPaths == {"u1", "u2"}

\* uploads named *.pdf: of one chunk or over the size limit, with the PDF
\* signature or another one, and a text page or nothing in them
ConcUploads ==
    { u \in Uploads :
        /\ u.suffix = "pdf"
        /\ u.size \in {1, MaxFileSize + 1}
        /\ u.head \in { <<37, 80, 68, 70>>, <<80, 75, 3, 4>> }
        /\ u.body \in { [kind |-> "broken"],
                        [kind |-> "pdf", pages |-> <<>>],
                        [kind |-> "pdf",
                         pages |-> << Page(200, 150, <<1, 1, 1>>) >>] } }

\* model responses: the call fails, or an object without schedule and tasks
ConcReplies ==
    { rp \in Replies :
        /\ rp.json = "invalid" \/ rp.contract_schedule.key = "absent"
        /\ rp.task_list.key = "absent"
        /\ rp.raw_text = EmptyText
        /\ rp.call = "error" \/ rp.json = "object" }

InitConc ==
    /\ files = [p \in ConcPaths |-> Absent]
    /\ used = {}
    /\ req = [r \in ConcRequests |-> InitRequest]
    /\ pdf = [pc |-> "idle", doc |-> <<>>, result |-> NoPdfResult]
    /\ call = NoCall
    /\ db = NoRows

NextConc ==
    \/ \E r \in ConcRequests, u \in ConcUploads, path \in ConcPaths :
           Start(r, u, path) /\ UNCHANGED <<pdf, call, db>>
    \/ \E r \in ConcRequests : ReadChunk(r) /\ UNCHANGED <<pdf, call, db>>
    \/ \E r \in ConcRequests : ReadError(r) /\ UNCHANGED <<pdf, call, db>>
    \/ \E r \in ConcRequests : Parse(r) /\ UNCHANGED <<pdf, call, db>>
    \/ \E r \in ConcRequests, reply \in ConcReplies :
           Extract(r, reply) /\ UNCHANGED <<pdf, call, db>>
    \/ \E r \in ConcRequests : Finally(r) /\ UNCHANGED <<pdf, call, db>>

SpecConc == InitConc /\ [][NextConc]_vars

\* -------------------------------------------- PDFParser.parse on its own
\* bound: pages of the documents parsed
MaxPdfPages == 3

RenderOutcomes ==
    { <<>>, <<1, 1, 1>>, <<2, 1, 1>>, <<5, 3, 2>>, <<12, 11, 10>>,
      <<20, 19, 19>> }

PageKinds ==
    { Page(0, 0, r) : r \in RenderOutcomes } \cup
    { Page(30, 25, <<1, 1, 1>>), Page(47, 40, <<1, 1, 1>>),
      Page(50, 40, <<1, 1, 1>>), Page(100, 30, <<1, 1, 1>>),
      Page(100, 29, <<1, 1, 1>>), Page(100, 30, <<>>) }

\* documents of up to MaxPdfPages pages, and documents with a page after
\* MAX_IMAGE_PAGES - 1 or MAX_IMAGE_PAGES empty pages that do not render
PdfDocs ==
    UNION { [1..n -> PageKinds] : n \in 0..MaxPdfPages } \cup
    { [i \in 1..(k + 1) |-> IF i <= k THEN Page(0, 0, <<>>) ELSE last] :
        k \in {MAX_IMAGE_PAGES - 1, MAX_IMAGE_PAGES},
        last \in { Page(0, 0, <<1, 1, 1>>), Page(100, 30, <<1, 1, 1>>) } }

InitPdf ==
    /\ files = NoFiles
    /\ used = {}
    /\ req = [r \in Requests |-> InitRequest]
    /\ pdf \in { [pc |-> "idle", doc |-> d, result |-> NoPdfResult] :
                    d \in PdfDocs }
    /\ call = NoCall
    /\ db = NoRows

\* PDFParser.parse(file_path) on an opened document
PdfParse ==
    /\ pdf.pc = "idle"
    /\ pdf' = [pdf EXCEPT !.pc = "done", !.result = PDFParser_parse(pdf.doc)]
    /\ UNCHANGED <<files, used, req, call, db>>

NextPdf == PdfParse

SpecPdf == InitPdf /\ [][NextPdf]_vars

\* --------------------------- HWPParser._extract_text_from_xml on its own
\* A str is [kind |-> "str", word |-> its characters without the leading and
\* trailing whitespace, padded |-> whether it has such whitespace]; None is
\* the text or tail of an element without one.
NoText == [kind |-> "None", word |-> "", padded |-> FALSE]

Str(word, padded) == [kind |-> "str", word |-> word, padded |-> padded]

\* str.strip()
strip(s) == [s EXCEPT !.padded = FALSE]

\* the truth value of a str or None
Truthy(s) == s.kind = "str" /\ (s.word # "" \/ s.padded)

\* an element of the tree ET.fromstring builds
Element(text, tail, children) ==
    [text |-> text, tail |-> tail, children |-> children]

\* root.iter(): the element, then its descendants, depth first
RECURSIVE iter(_)
RECURSIVE iter_all(_)
iter(elem) == <<elem>> \o iter_all(elem.children)

iter_all(elems) ==
    IF elems = <<>> THEN <<>>
    ELSE iter(elems[1]) \o iter_all(Tail(elems))

\* the loop over root.iter(): per element its text, then its tail
RECURSIVE text_parts(_)
text_parts(elems) ==
    IF elems = <<>> THEN <<>>
    ELSE LET elem == elems[1]
         IN  (IF Truthy(elem.text) /\ Truthy(strip(elem.text))
              THEN <<strip(elem.text).word>> ELSE <<>>)
             \o (IF Truthy(elem.tail) /\ Truthy(strip(elem.tail))
                 THEN <<strip(elem.tail).word>> ELSE <<>>)
             \o text_parts(Tail(elems))

\* HWPParser._extract_text_from_xml; " ".join(text_parts) is given as the
\* sequence of the parts it joins
_extract_text_from_xml(xml_content) ==
    IF xml_content.kind = "malformed" THEN <<>>
    ELSE text_parts(iter(xml_content.root))

\* bound: nesting of elements below the root element
MaxXmlDepth == 2

Texts == { NoText, Str("", TRUE), Str("a", FALSE), Str("b", TRUE) }

Tails == { NoText, Str("", TRUE), Str("t", FALSE) }

\* elements nested at most d deep, with no child, one child, or a child
\* followed by a sibling with text "s"
RECURSIVE XmlElems(_)
XmlElems(d) ==
    IF d = 0
    THEN { Element(x, t, <<>>) : x \in Texts, t \in Tails }
    ELSE { Element(x, t, cs) : x \in Texts, t \in Tails,
             cs \in {<<>>} \cup { <<c>> : c \in XmlElems(d - 1) }
                    \cup { <<c, Element(Str("s", FALSE), NoText, <<>>)>> :
                             c \in XmlElems(d - 1) } }

\* section XML: not well-formed, or a tree (the root element has no tail)
XmlContents ==
    { [kind |-> "malformed", root |-> Element(NoText, NoText, <<>>)] } \cup
    { [kind |-> "xml", root |-> e] :
        e \in { x \in XmlElems(MaxXmlDepth) : x.tail = NoText } }

InitXml ==
    /\ files = NoFiles
    /\ used = {}
    /\ req = [r \in Requests |-> InitRequest]
    /\ pdf = [pc |-> "idle", doc |-> <<>>, result |-> NoPdfResult]
    /\ db = NoRows
    /\ call \in { [pc |-> "idle", op |-> "_extract_text_from_xml",
                   arg |-> x, result |-> NoneValue] : x \in XmlContents }

XmlExtract ==
    /\ call.pc = "idle"
    /\ call.op = "_extract_text_from_xml"
    /\ call' = [call EXCEPT !.pc = "done",
                            !.result = _extract_text_from_xml(call.arg)]
    /\ UNCHANGED <<files, used, req, pdf, db>>

NextXml == XmlExtract

SpecXml == InitXml /\ [][NextXml]_vars

\* ----------------------------------- DocxParser._extract_table on its own
\* A table is the sequence of its rows, a row the sequence of its cell.text.
\* A str built by _extract_table is given as the sequence of its tokens:
\* the non-empty cell texts, "|" for " | " and "\n" for a line break.

\* sep.join(parts), parts being token sequences
RECURSIVE JoinTokens(_, _)
JoinTokens(sep, parts) ==
    IF parts = <<>> THEN <<>>
    ELSE IF Len(parts) = 1 THEN parts[1]
    ELSE parts[1] \o <<sep>> \o JoinTokens(sep, Tail(parts))

\* the tokens of a stripped cell text
CellTokens(cell) == IF cell.word = "" THEN <<>> ELSE <<cell.word>>

\* the loop over cells: unique_cells, given prev
RECURSIVE unique_cells_all_duplicates(_, _)
unique_cells_all_duplicates(cells, seen) ==
    IF cells = <<>> THEN <<>>
    ELSE IF \E i \in 1..Len(seen) : seen[i] = cells[1]
         THEN unique_cells_all_duplicates(Tail(cells), seen)
         ELSE <<cells[1]>>
              \o unique_cells_all_duplicates(Tail(cells),
                                             Append(seen, cells[1]))
RECURSIVE unique_cells_from(_, _)
unique_cells_from(cells, prev) ==
    IF cells = <<>> THEN <<>>
    ELSE IF cells[1] # prev
         THEN <<cells[1]>> \o unique_cells_from(Tail(cells), cells[1])
         ELSE unique_cells_from(Tail(cells), prev)

unique_cells_no_repeat(cells) == unique_cells_all_duplicates(cells, <<>>)
unique_cells(cells) == unique_cells_from(cells, NoText)

\* one round of the loop over table.rows: the str appended to result
RowText(row) ==
    LET cells == [i \in 1..Len(row) |-> strip(row[i])]
        unique == unique_cells(cells)
    IN  JoinTokens("|", [i \in 1..Len(unique) |-> CellTokens(unique[i])])

\* DocxParser._extract_table
_extract_table(table) ==
    JoinTokens("\n", [i \in 1..Len(table) |-> RowText(table[i])])

\* bound: cells in a table row
MaxCells == 3

CellTexts ==
    { Str("A", FALSE), Str("A", TRUE), Str("B", FALSE), Str("", FALSE) }

TableRows == UNION { [1..n -> CellTexts] : n \in 1..MaxCells }

\* tables without rows, with one row, and with a row before a second one
Tables ==
    {<<>>} \cup { <<r>> : r \in TableRows }
           \cup { <<r, <<Str("B", FALSE), Str("B", FALSE)>> >> :
                    r \in TableRows }

InitTable ==
    /\ files = NoFiles
    /\ used = {}
    /\ req = [r \in Requests |-> InitRequest]
    /\ pdf = [pc |-> "idle", doc |-> <<>>, result |-> NoPdfResult]
    /\ db = NoRows
    /\ call \in { [pc |-> "idle", op |-> "_extract_table",
                   arg |-> t, result |-> NoneValue] : t \in Tables }

ExtractTable ==
    /\ call.pc = "idle"
    /\ call.op = "_extract_table"
    /\ call' = [call EXCEPT !.pc = "done",
                            !.result = _extract_table(call.arg)]
    /\ UNCHANGED <<files, used, req, pdf, db>>

NextTable == ExtractTable

SpecTable == InitTable /\ [][NextTable]_vars

\* ---------------------------------------------- ImageParser.parse on its own
\* width and height of the images parsed
ImageDims ==
    { <<1000, 800>>, <<2048, 2048>>, <<2049, 100>>, <<3000, 2000>>,
      <<2000, 3000>>, <<1, 5000>> }

\* image files: the extension, the size of the file and what PIL finds
ImageFiles ==
    { [extension |-> e, nbytes |-> n,
       body |-> [kind |-> "image", decodable |-> FALSE, png |-> 0,
                 resized |-> 0, width |-> 0, height |-> 0]] :
        e \in {"jpg", "png", "webp"}, n \in {1, 5} } \cup
    { [extension |-> e, nbytes |-> n,
       body |-> [kind |-> "image", decodable |-> TRUE, png |-> p,
                 resized |-> z, width |-> d[1], height |-> d[2]]] :
        e \in {"jpg", "png", "webp"}, n \in {1, 5}, p \in {3, 6},
        z \in {2, 5}, d \in ImageDims }

InitImage ==
    /\ files = NoFiles
    /\ used = {}
    /\ req = [r \in Requests |-> InitRequest]
    /\ pdf = [pc |-> "idle", doc |-> <<>>, result |-> NoPdfResult]
    /\ db = NoRows
    /\ call \in { [pc |-> "idle", op |-> "ImageParser.parse",
                   arg |-> f, result |-> NoneValue] : f \in ImageFiles }

ImageParse ==
    /\ call.pc = "idle"
    /\ call.op = "ImageParser.parse"
    /\ call' = [call EXCEPT
                   !.pc = "done",
                   !.result = ImageParser_parse(call.arg.extension,
                                  call.arg.nbytes, call.arg.body)]
    /\ UNCHANGED <<files, used, req, pdf, db>>

NextImage == ImageParse

SpecImage == InitImage /\ [][NextImage]_vars

\* ------------------- GeminiService.extract_schedule up to the model call
\* A part of a model request is [kind, n, data, len]: "prompt" (the system
\* prompt with the instruction, or with the whole text prompt around len
\* characters of the document), "label" (f"--- 페이지 {n} ---"), "image"
\* (data: the bytes), "supplementary" (len characters of parser text) and
\* "format" (the closing instruction with the JSON format).
Part(kind, n, data, len) ==
    [kind |-> kind, n |-> n, data |-> data, len |-> len]

\* the characters text[:12000] and supplementary_text[:4000] keep
TextBudget == 12000

SupplementaryBudget == 4000

\* GeminiService._extract_from_text: the one generate_content_async call
_extract_from_text(text) ==
    << [path |-> "text",
        parts |-> << Part("prompt", 0, "None", Min(text.len, TextBudget)) >>] >>

\* the loop over enumerate(images): the label, then the image
RECURSIVE ImageParts(_, _)
ImageParts(images, i) ==
    IF i > Len(images) THEN <<>>
    ELSE << Part("label", i, "None", 0), Part("image", 0, images[i], 0) >>
         \o ImageParts(images, i + 1)

\* if supplementary_text and supplementary_text.strip(): parts.append(...)
SupplementaryPartUnstripped(supplementary_text) ==
    IF supplementary_text.len > 0
    THEN << Part("supplementary", 0, "None",
                 Min(supplementary_text.len, SupplementaryBudget)) >>
    ELSE <<>>
SupplementaryPart(supplementary_text) ==
    IF supplementary_text.len > 0 /\ NonBlank(supplementary_text)
    THEN << Part("supplementary", 0, "None",
                 Min(supplementary_text.len, SupplementaryBudget)) >>
    ELSE <<>>

\* GeminiService._extract_from_images: the one generate_content_async call
_extract_from_images(images, supplementary_text) ==
    << [path |-> "multimodal",
        parts |-> << Part("prompt", 0, "None", 0) >>
                  \o ImageParts(images, 1)
                  \o SupplementaryPart(supplementary_text)
                  \o << Part("format", 0, "None", 0) >>] >>

\* images as passed to extract_schedule: None or a list; `if images:`
ImagesGiven(images) == images.kind = "list" /\ images.items # <<>>

\* GeminiService.extract_schedule: the model requests it makes
extract_schedule_requests(text, images) ==
    IF ImagesGiven(images)
    THEN _extract_from_images(images.items, text)
    ELSE _extract_from_text(text)

\* bound: images passed to extract_schedule
MaxImages == 2

PromptTexts ==
    { EmptyText, Blank(5), Blank(4001), T(300), T(4000), T(4001),
      T(12000), T(12001) }

ImageLists ==
    { [kind |-> "None", items |-> <<>>] } \cup
    { [kind |-> "list", items |-> s] :
        s \in UNION { [1..n -> {"png_a", "png_b"}] : n \in 0..MaxImages } }

InitRequests ==
    /\ files = NoFiles
    /\ used = {}
    /\ req = [r \in Requests |-> InitRequest]
    /\ pdf = [pc |-> "idle", doc |-> <<>>, result |-> NoPdfResult]
    /\ db = NoRows
    /\ call \in { [pc |-> "idle", op |-> "extract_schedule",
                   arg |-> [text |-> t, images |-> i],
                   result |-> NoneValue] :
                    t \in PromptTexts, i \in ImageLists }

SendRequests ==
    /\ call.pc = "idle"
    /\ call.op = "extract_schedule"
    /\ call' = [call EXCEPT
                   !.pc = "done",
                   !.result = extract_schedule_requests(call.arg.text,
                                                        call.arg.images)]
    /\ UNCHANGED <<files, used, req, pdf, db>>

NextRequests == SendRequests

SpecRequests == InitRequests /\ [][NextRequests]_vars

\* ------------------------------------------- contracts.py and teams.py
\* db is [teams |-> the ids of the rows of teams,
\*        team_members |-> rows [team_id, user_id, role],
\*        contracts |-> rows [user_id, team_id, contract_name], the id of a
\*                      contract being its position].
\* call holds the last request: arg is the request with the user it is
\* authenticated as and rows, the tables it was served from; result is
\* [status |-> the HTTP status, id |-> the contract returned, or 0].

\* the users with a session, the ids the teams table hands out and the
\* contract names used
Users == {"alice", "bob"}

TeamIds == {"t1"}

Names == {"X", "Y"}

\* bound: rows of the contracts table
MaxContracts == 2

Response(status, id) == [status |-> status, id |-> id]

\* _user_team_ids
_user_team_ids(rows, user_id) ==
    {m.team_id : m \in {x \in rows.team_members : x.user_id = user_id}}

\* _accessible_filter applied to one row of contracts
_accessible_filter_owner_any(user_id, team_ids, contract) ==
    \/ contract.user_id = user_id
    \/ team_ids # {} /\ contract.team_id \in team_ids
_accessible_filter(user_id, team_ids, contract) ==
    \/ contract.user_id = user_id /\ contract.team_id = "None"
    \/ team_ids # {} /\ contract.team_id \in team_ids

\* Result.scalar_one_or_none() on the ids of the rows selected: None (0),
\* the one row, or MultipleResultsFound
scalar_one_or_none(ids) ==
    IF ids = {} THEN Return(0)
    ELSE IF Cardinality(ids) = 1 THEN Return(CHOOSE i \in ids : TRUE)
    ELSE Raise("MultipleResultsFound", "scalar_one_or_none")

\* _get_accessible_contract
_get_accessible_contract(rows, contract_id, user_id, team_ids) ==
    scalar_one_or_none(
        {i \in DOMAIN rows.contracts :
            /\ i = contract_id
            /\ _accessible_filter(user_id, team_ids, rows.contracts[i])})

\* get_team_member: the rows of team_members selected (at most one)
get_team_member(rows, team_id, user_id) ==
    {m \in rows.team_members : m.team_id = team_id /\ m.user_id = user_id}

\* require_team_role: FALSE when it raises HTTPException(403)
require_team_role(rows, team_id, user_id, roles) ==
    \E m \in get_team_member(rows, team_id, user_id) : m.role \in roles

\* the response is sent and, with tables, the transaction committed
Respond(op, arg, result, tables) ==
    /\ call' = [pc |-> "done", op |-> op, arg |-> arg, result |-> result]
    /\ db' = tables

\* POST /teams
create_team(user, blank_name) ==
    LET arg == [user |-> user, blank_name |-> blank_name, rows |-> db]
    IN  IF blank_name
        THEN Respond("create_team", arg, Response(400, 0), db)
        ELSE \E team_id \in TeamIds \ db.teams :
                Respond("create_team", arg, Response(200, 0),
                    [db EXCEPT
                        !.teams = @ \cup {team_id},
                        !.team_members = @ \cup
                            {[team_id |-> team_id, user_id |-> user,
                              role |-> "owner"]}])

\* POST /teams/{team_id}/members; target is the user with the email given,
\* "nobody" when there is none
invite_member(user, team_id, target) ==
    LET arg == [user |-> user, team_id |-> team_id, target |-> target,
                rows |-> db]
    IN  IF ~ require_team_role(db, team_id, user, {"owner", "admin"})
        THEN Respond("invite_member", arg, Response(403, 0), db)
        ELSE IF target \notin Users
        THEN Respond("invite_member", arg, Response(404, 0), db)
        ELSE IF get_team_member(db, team_id, target) # {}
        THEN Respond("invite_member", arg, Response(409, 0), db)
        ELSE Respond("invite_member", arg, Response(200, 0),
                [db EXCEPT !.team_members = @ \cup
                    {[team_id |-> team_id, user_id |-> target,
                      role |-> "member"]}])

remove_member_without_owner_guard(user, team_id, target) ==
    LET arg == [user |-> user, team_id |-> team_id, target |-> target,
                rows |-> db]
        target_member == get_team_member(db, team_id, target)
    IN  IF target_member = {}
        THEN Respond("remove_member", arg, Response(404, 0), db)
        ELSE IF user # target
                /\ ~ require_team_role(db, team_id, user, {"owner", "admin"})
        THEN Respond("remove_member", arg, Response(403, 0), db)
        ELSE Respond("remove_member", arg, Response(200, 0),
                [db EXCEPT !.team_members = @ \ target_member])

\* DELETE /teams/{team_id}/members/{target_user_id}
remove_member(user, team_id, target) ==
    LET arg == [user |-> user, team_id |-> team_id, target |-> target,
                rows |-> db]
        target_member == get_team_member(db, team_id, target)
        owner_count == Cardinality({m \in db.team_members :
                           m.team_id = team_id /\ m.role = "owner"})
    IN  IF target_member = {}
        THEN Respond("remove_member", arg, Response(404, 0), db)
        ELSE IF (\E m \in target_member : m.role = "owner")
                /\ owner_count <= 1
        THEN Respond("remove_member", arg, Response(400, 0), db)
        ELSE IF user # target
                /\ ~ require_team_role(db, team_id, user, {"owner", "admin"})
        THEN Respond("remove_member", arg, Response(403, 0), db)
        ELSE Respond("remove_member", arg, Response(200, 0),
                [db EXCEPT !.team_members = @ \ target_member])

\* POST /contracts/save; team_id is "None" for a personal contract
save_contract(user, contract_name, team_id) ==
    LET arg == [user |-> user, contract_name |-> contract_name,
                team_id |-> team_id, rows |-> db]
        team_ids == _user_team_ids(db, user)
        existing_contract ==
            scalar_one_or_none(
                {i \in DOMAIN db.contracts :
                    /\ db.contracts[i].contract_name = contract_name
                    /\ _accessible_filter(user, team_ids, db.contracts[i])})
    IN  IF team_id # "None" /\ team_id \notin team_ids
        THEN Respond("save_contract", arg, Response(403, 0), db)
        ELSE IF IsRaise(existing_contract)
        THEN Respond("save_contract", arg, Response(500, 0), db)
        ELSE IF existing_contract.value # 0
        THEN Respond("save_contract", arg, Response(409, 0), db)
        ELSE /\ Len(db.contracts) < MaxContracts
             /\ Respond("save_contract", arg,
                    Response(200, Len(db.contracts) + 1),
                    [db EXCEPT !.contracts = Append(@,
                        [user_id |-> user, team_id |-> team_id,
                         contract_name |-> contract_name])])

\* GET /contracts/{contract_id}
get_contract(user, contract_id) ==
    LET arg == [user |-> user, contract_id |-> contract_id, rows |-> db]
        contract == _get_accessible_contract(db, contract_id, user,
                                             _user_team_ids(db, user))
    IN  IF contract.value = 0
        THEN Respond("get_contract", arg, Response(404, 0), db)
        ELSE Respond("get_contract", arg, Response(200, contract.value), db)

\* PUT /contracts/{contract_id}; contract_name is "None" when the request
\* does not set it
update_contract(user, contract_id, contract_name) ==
    LET arg == [user |-> user, contract_id |-> contract_id,
                contract_name |-> contract_name, rows |-> db]
        team_ids == _user_team_ids(db, user)
        contract == _get_accessible_contract(db, contract_id, user, team_ids)
        dup_result ==
            scalar_one_or_none(
                {i \in DOMAIN db.contracts :
                    /\ _accessible_filter(user, team_ids, db.contracts[i])
                    /\ db.contracts[i].contract_name = contract_name
                    /\ i # contract_id})
    IN  IF contract.value = 0
        THEN Respond("update_contract", arg, Response(404, 0), db)
        ELSE IF contract_name # "None"
                /\ contract_name # db.contracts[contract_id].contract_name
                /\ IsRaise(dup_result)
        THEN Respond("update_contract", arg, Response(500, 0), db)
        ELSE IF contract_name # "None"
                /\ contract_name # db.contracts[contract_id].contract_name
                /\ dup_result.value # 0
        THEN Respond("update_contract", arg, Response(409, 0), db)
        ELSE Respond("update_contract", arg, Response(200, contract_id),
                IF contract_name = "None" THEN db
                ELSE [db EXCEPT !.contracts[contract_id].contract_name =
                                    contract_name])

InitDb ==
    /\ files = NoFiles
    /\ used = {}
    /\ req = [r \in Requests |-> InitRequest]
    /\ pdf = [pc |-> "idle", doc |-> <<>>, result |-> NoPdfResult]
    /\ call = NoCall
    /\ db = NoRows

NextDb ==
    \/ \E user \in Users, blank_name \in BOOLEAN :
           create_team(user, blank_name) /\ UNCHANGED <<files, used, req, pdf>>
    \/ \E user \in Users, team_id \in TeamIds, target \in Users \cup {"nobody"} :
           invite_member(user, team_id, target)
           /\ UNCHANGED <<files, used, req, pdf>>
    \/ \E user \in Users, team_id \in TeamIds, target \in Users :
           remove_member(user, team_id, target)
           /\ UNCHANGED <<files, used, req, pdf>>
    \/ \E user \in Users, contract_name \in Names,
          team_id \in TeamIds \cup {"None"} :
           save_contract(user, contract_name, team_id)
           /\ UNCHANGED <<files, used, req, pdf>>
    \/ \E user \in Users, contract_id \in 1..MaxContracts :
           get_contract(user, contract_id)
           /\ UNCHANGED <<files, used, req, pdf>>
    \/ \E user \in Users, contract_id \in 1..MaxContracts,
          contract_name \in Names \cup {"None"} :
           update_contract(user, contract_id, contract_name)
           /\ UNCHANGED <<files, used, req, pdf>>

SpecDb == InitDb /\ [][NextDb]_vars

\* ----------------------------------------------------------------- auth.py
\* db is [users |-> rows [email, password_hash], a user's id being its email,
\*        verification_codes |-> rows [id, email, code, expires_at, is_used],
\*        user_sessions |-> rows [token, user_id, expires_at],
\*        issued |-> the tokens secrets.token_urlsafe has returned,
\*        utc_now |-> the clock, in units of ten minutes,
\*        elapses |-> the number of times the clock was advanced].
\* call holds the last request: arg is the request; result is
\* [status |-> the HTTP status, user |-> the user it was served for or
\* "None", cookie |-> the session_token it sets or 0].
\* The rate limiter is switched off, as in tests/conftest.py.

\* 86400 seconds
SESSION_MAX_AGE == 144

\* get_code_expiry: ten minutes after now
get_code_expiry(now) == now + 1

Emails == {"a@test.com", "b@test.com"}

Codes == {"111111", "222222"}

\* bound: the session tokens there are (0 is a request without the cookie)
MaxSessions == 2

Tokens == 1..MaxSessions

\* a session_token no session ever had
ForgedToken == MaxSessions + 1

\* bound: the largest id of a row of verification_codes
MaxCodes == 2

\* bound: the number of times the clock is advanced
MaxElapses == 2

Password(text, len, letter, digit) ==
    [text |-> text, len |-> len, letter |-> letter, digit |-> digit]

Passwords ==
    { Password("password123", 11, TRUE, TRUE),
      Password("abc1", 4, TRUE, TRUE),
      Password("abcdefgh", 8, TRUE, FALSE),
      Password("12345678", 8, FALSE, TRUE) }

\* what password_confirm holds: the password, or another text
PasswordConfirms(password) ==
    {password, Password("password124", 11, TRUE, TRUE)}

NoAuthRows ==
    [users |-> {}, verification_codes |-> {}, user_sessions |-> {},
     issued |-> {}, utc_now |-> 0, elapses |-> 0]

AuthResponse(status, user, cookie) ==
    [status |-> status, user |-> user, cookie |-> cookie]

\* hash_password: a hash verifies the password it was made from and no other
hash_password(password) == password.text

\* secrets.token_urlsafe(32): a token it has not returned before
token_urlsafe(rows, token) == token \in Tokens \ rows.issued

\* session.expires_at < utc_now()
expired_never(session, now) == FALSE
expired(session, now) == session.expires_at < now

\* the rows of a table selected by the value of one column
RowsWith(table, key, value) == {x \in table : x[key] = value}

\* _create_session for the token drawn
_create_session(rows, user_id, token) ==
    [rows EXCEPT
        !.user_sessions = @ \cup
            {[token |-> token, user_id |-> user_id,
              expires_at |-> rows.utc_now + SESSION_MAX_AGE]},
        !.issued = @ \cup {token}]

\* the id a new row of verification_codes gets: one more than the largest
next_code_id(rows) ==
    IF rows.verification_codes = {} THEN 1
    ELSE 1 + CHOOSE i \in {x.id : x \in rows.verification_codes} :
                 \A x \in rows.verification_codes : x.id <= i

\* POST /auth/send-code; code is the code generated, stored whether or not
\* the e-mail went out (sent)
send_verification_code(email, code, sent) ==
    LET arg == [email |-> email, code |-> code, sent |-> sent]
        kept == {x \in db.verification_codes :
                    ~ (x.email = email /\ ~ x.is_used)}
        cleared == [db EXCEPT !.verification_codes = kept]
        stored == [cleared EXCEPT !.verification_codes = @ \cup
                      {[id |-> next_code_id(cleared), email |-> email,
                        code |-> code,
                        expires_at |-> get_code_expiry(db.utc_now),
                        is_used |-> FALSE]}]
    IN  IF RowsWith(db.users, "email", email) # {}
        THEN Respond("send_verification_code", arg,
                     AuthResponse(400, "None", 0), db)
        ELSE /\ next_code_id(cleared) <= MaxCodes
             /\ Respond("send_verification_code", arg,
                    AuthResponse(IF sent THEN 200 ELSE 500, "None", 0), stored)

\* POST /auth/verify-code
verify_code(email, code) ==
    LET arg == [email |-> email, code |-> code]
        verification ==
            scalar_one_or_none(
                {x.id : x \in {y \in db.verification_codes :
                    y.email = email /\ y.code = code /\ ~ y.is_used}})
        row == CHOOSE x \in db.verification_codes : x.id = verification.value
    IN  IF IsRaise(verification)
        THEN Respond("verify_code", arg, AuthResponse(500, "None", 0), db)
        ELSE IF verification.value = 0
        THEN Respond("verify_code", arg, AuthResponse(400, "None", 0), db)
        ELSE IF row.expires_at < db.utc_now
        THEN Respond("verify_code", arg, AuthResponse(400, "None", 0), db)
        ELSE Respond("verify_code", arg, AuthResponse(200, "None", 0),
                [db EXCEPT !.verification_codes =
                    (@ \ {row}) \cup {[row EXCEPT !.is_used = TRUE]}])

\* POST /auth/signup
signup(email, password, password_confirm) ==
    LET arg == [email |-> email, password |-> password,
                password_confirm |-> password_confirm]
        verified ==
            scalar_one_or_none(
                {x.id : x \in {y \in db.verification_codes :
                    y.email = email /\ y.is_used}})
        existing_user == RowsWith(db.users, "email", email)
        created == [db EXCEPT !.users = @ \cup
                       {[email |-> email,
                         password_hash |-> hash_password(password)]}]
    IN  IF password.text # password_confirm.text
        THEN Respond("signup", arg, AuthResponse(400, "None", 0), db)
        ELSE IF password.len < 8
        THEN Respond("signup", arg, AuthResponse(400, "None", 0), db)
        ELSE IF ~ password.letter \/ ~ password.digit
        THEN Respond("signup", arg, AuthResponse(400, "None", 0), db)
        ELSE IF IsRaise(verified)
        THEN Respond("signup", arg, AuthResponse(500, "None", 0), db)
        ELSE IF verified.value = 0
        THEN Respond("signup", arg, AuthResponse(400, "None", 0), db)
        ELSE IF existing_user # {}
        THEN Respond("signup", arg, AuthResponse(400, "None", 0), db)
        ELSE \E session_token \in Tokens :
                /\ token_urlsafe(db, session_token)
                /\ Respond("signup", arg,
                       AuthResponse(200, email, session_token),
                       _create_session(created, email, session_token))

\* GET /auth/callback/google; email is the e-mail of the userinfo Google
\* returns, "None" when the exchange fails or returns no userinfo
google_callback(email) ==
    LET arg == [email |-> email]
        user == RowsWith(db.users, "email", email)
        created == IF user # {} THEN db
                   ELSE [db EXCEPT !.users = @ \cup
                            {[email |-> email, password_hash |-> "None"]}]
    IN  IF email = "None"
        THEN Respond("google_callback", arg, AuthResponse(400, "None", 0), db)
        ELSE \E session_token \in Tokens :
                /\ token_urlsafe(db, session_token)
                /\ Respond("google_callback", arg,
                       AuthResponse(307, email, session_token),
                       _create_session(created, email, session_token))

\* require_current_user, the dependency of every protected endpoint:
\* [user |-> the user returned or "None" when it raises HTTPException(401),
\*  tables |-> the tables it leaves]
require_current_user(rows, session_token) ==
    LET session == RowsWith(rows.user_sessions, "token", session_token)
    IN  IF session_token = 0
        THEN [user |-> "None", tables |-> rows]
        ELSE IF session = {}
        THEN [user |-> "None", tables |-> rows]
        ELSE IF \E s \in session : expired(s, rows.utc_now)
        THEN [user |-> "None",
              tables |-> [rows EXCEPT !.user_sessions = @ \ session]]
        ELSE IF \A s \in session :
                    RowsWith(rows.users, "email", s.user_id) = {}
        THEN [user |-> "None", tables |-> rows]
        ELSE [user |-> (CHOOSE s \in session : TRUE).user_id,
              tables |-> rows]

\* a request to a protected endpoint, as far as its dependency goes
protected(session_token) ==
    LET arg == [session_token |-> session_token]
        current == require_current_user(db, session_token)
    IN  Respond("protected", arg,
            AuthResponse(IF current.user = "None" THEN 401 ELSE 200,
                         current.user, 0),
            current.tables)

\* GET /auth/me: user is "None" in a reply with logged_in false
get_me(session_token) ==
    LET arg == [session_token |-> session_token]
        session == RowsWith(db.user_sessions, "token", session_token)
    IN  IF \/ session_token = 0
           \/ session = {}
           \/ \E s \in session : s.expires_at < db.utc_now
           \/ \A s \in session : RowsWith(db.users, "email", s.user_id) = {}
        THEN Respond("get_me", arg, AuthResponse(200, "None", 0), db)
        ELSE Respond("get_me", arg,
                 AuthResponse(200, (CHOOSE s \in session : TRUE).user_id, 0),
                 db)

\* POST /auth/logout
logout(session_token) ==
    LET arg == [session_token |-> session_token]
        session == RowsWith(db.user_sessions, "token", session_token)
    IN  Respond("logout", arg, AuthResponse(200, "None", 0),
            IF session_token # 0
            THEN [db EXCEPT !.user_sessions = @ \ session]
            ELSE db)

\* time passes: a little more than the life of a verification code, or of
\* a session
Delays == {get_code_expiry(0) + 1, SESSION_MAX_AGE + 1}

Elapse(delay) ==
    /\ db.elapses < MaxElapses
    /\ db' = [db EXCEPT !.utc_now = @ + delay, !.elapses = @ + 1]
    /\ call' = [NoCall EXCEPT !.pc = "done", !.op = "Elapse"]

InitAuth ==
    /\ files = NoFiles
    /\ used = {}
    /\ req = [r \in Requests |-> InitRequest]
    /\ pdf = [pc |-> "idle", doc |-> <<>>, result |-> NoPdfResult]
    /\ call = NoCall
    /\ db = NoAuthRows

\* the sessions: Google logins, protected requests, /auth/me and logout
NextAuth ==
    \/ \E email \in Emails \cup {"None"} :
           google_callback(email) /\ UNCHANGED <<files, used, req, pdf>>
    \/ \E session_token \in db.issued \cup {0, ForgedToken} :
           protected(session_token) /\ UNCHANGED <<files, used, req, pdf>>
    \/ \E session_token \in db.issued \cup {0, ForgedToken} :
           get_me(session_token) /\ UNCHANGED <<files, used, req, pdf>>
    \/ \E session_token \in db.issued \cup {0, ForgedToken} :
           logout(session_token) /\ UNCHANGED <<files, used, req, pdf>>
    \/ \E delay \in Delays :
           Elapse(delay) /\ UNCHANGED <<files, used, req, pdf>>

SpecAuth == InitAuth /\ [][NextAuth]_vars

\* the e-mail sign-up: send-code, verify-code and signup
NextSignup ==
    \/ \E email \in Emails, code \in Codes, sent \in BOOLEAN :
           send_verification_code(email, code, sent)
           /\ UNCHANGED <<files, used, req, pdf>>
    \/ \E email \in Emails, code \in Codes :
           verify_code(email, code) /\ UNCHANGED <<files, used, req, pdf>>
    \/ \E email \in Emails, password \in Passwords :
         \E password_confirm \in PasswordConfirms(password) :
           signup(email, password, password_confirm)
           /\ UNCHANGED <<files, used, req, pdf>>
    \/ Elapse(get_code_expiry(0) + 1) /\ UNCHANGED <<files, used, req, pdf>>

SpecSignup == InitAuth /\ [][NextSignup]_vars

\* ------------------------------------------- comments.py and the team roles
\* db has also comments |-> rows [id, contract_id, user_id, content].
\* A content is [text |-> the text as a Str, mentions |-> the places where
\* the text has "@" and an e-mail address, in order, each with the
\* characters that follow the address at once: "" or "."]; the e-mail of a
\* user is the user's name. result.notifications counts, per user and type,
\* the rows the request adds to notifications.

\* TEAM_PERMISSIONS
TEAM_PERMISSIONS ==
    [owner |-> {"team.update", "team.delete", "team.invite",
                "team.remove_member", "team.change_role",
                "contract.create", "contract.update", "contract.delete",
                "task.create", "task.update", "task.delete", "task.assign",
                "comment.create", "comment.delete_any"},
     admin |-> {"team.update", "team.invite", "team.remove_member",
                "contract.create", "contract.update", "contract.delete",
                "task.create", "task.update", "task.delete", "task.assign",
                "comment.create", "comment.delete_any"},
     member |-> {"contract.create",
                 "task.create", "task.update", "task.assign",
                 "comment.create"},
     viewer |-> {"comment.create"}]

\* TEAM_PERMISSIONS.get(role, set())
permissions_of(role) ==
    IF role \in DOMAIN TEAM_PERMISSIONS THEN TEAM_PERMISSIONS[role] ELSE {}

\* check_permission
check_permission(role, permission) == permission \in permissions_of(role)

\* MemberRoleUpdate.role: the pattern admits admin, member and viewer
RoleUpdates == {"admin", "member", "viewer", "owner"}

\* PATCH /teams/{team_id}/members/{target_user_id}/role
update_member_role(user, team_id, target, role) ==
    LET arg == [user |-> user, team_id |-> team_id, target |-> target,
                role |-> role]
        target_member == get_team_member(db, team_id, target)
        allowed_roles == DOMAIN TEAM_PERMISSIONS \ {"owner"}
    IN  IF role \notin {"admin", "member", "viewer"}
        THEN Respond("update_member_role", arg, Response(422, 0), db)
        ELSE IF ~ require_team_role(db, team_id, user, {"owner"})
        THEN Respond("update_member_role", arg, Response(403, 0), db)
        ELSE IF role \notin allowed_roles
        THEN Respond("update_member_role", arg, Response(400, 0), db)
        ELSE IF target_member = {}
        THEN Respond("update_member_role", arg, Response(404, 0), db)
        ELSE IF \E m \in target_member : m.role = "owner"
        THEN Respond("update_member_role", arg, Response(400, 0), db)
        ELSE Respond("update_member_role", arg, Response(200, 0),
                [db EXCEPT !.team_members =
                    (@ \ target_member) \cup
                    {[m EXCEPT !.role = role] : m \in target_member}])

\* bound: the largest id of a row of comments
MaxComments == 1

NoCommentRows ==
    [teams |-> {}, team_members |-> {}, contracts |-> <<>>, comments |-> {}]

Mention(email, tail) == [email |-> email, tail |-> tail]

Content(text, mentions) == [text |-> text, mentions |-> mentions]

\* a string that holds an e-mail address and the characters after it
Address(email, trailing) == [email |-> email, trailing |-> trailing]

\* User.email
Email(user) == Address(user, "")

\* _extract_mentions: after the "@", the local part, the "@" and the domain
\* with its dot, the pattern takes every letter, digit, dot and hyphen that
\* follows, so the string found ends with the dot that follows the address
_extract_mentions(content) ==
    [i \in DOMAIN content.mentions |->
        Address(content.mentions[i].email, content.mentions[i].tail)]

\* set(mentions)
set(list) == {list[i] : i \in DOMAIN list}

\* the rows a request adds to notifications, counted per user and type
NoNotifications == [u \in Users |-> [mention |-> 0, comment |-> 0]]

CommentResponse(status, id, notifications) ==
    [status |-> status, id |-> id, notifications |-> notifications]

\* the id a new row of comments gets: one more than the largest
next_comment_id(rows) ==
    IF rows.comments = {} THEN 1
    ELSE 1 + CHOOSE i \in {x.id : x \in rows.comments} :
                 \A x \in rows.comments : x.id <= i

\* _notify_mentions: one row per address of set(mentions) that is the e-mail
\* of a user other than the author
_notify_mentions(mentions, user) ==
    [u \in Users |->
        Cardinality({email \in set(mentions) :
                        email = Email(u) /\ u # user})]

\* create_comment, lines 151-172: one row of type comment per row of
\* team_members of the contract's team that is not the author's and whose
\* user's e-mail is not in set(mentions)
NotifyMembers(rows, team_id, mentions, user) ==
    [u \in Users |->
        IF team_id = "None" THEN 0
        ELSE Cardinality({m \in rows.team_members :
                /\ m.team_id = team_id
                /\ m.user_id # user
                /\ m.user_id = u
                /\ Email(u) \notin set(mentions)})]

\* POST /contracts/{contract_id}/comments
create_comment(user, contract_id, content) ==
    LET arg == [user |-> user, contract_id |-> contract_id,
                content |-> content]
        team_ids == _user_team_ids(db, user)
        contract == _get_accessible_contract(db, contract_id, user, team_ids)
        mentions == _extract_mentions(content)
        mentioned == _notify_mentions(mentions, user)
        commented == NotifyMembers(db, db.contracts[contract_id].team_id,
                                   mentions, user)
    IN  IF contract.value = 0
        THEN Respond("create_comment", arg,
                     CommentResponse(404, 0, NoNotifications), db)
        ELSE IF ~ Truthy(strip(content.text))
        THEN Respond("create_comment", arg,
                     CommentResponse(400, 0, NoNotifications), db)
        ELSE /\ next_comment_id(db) <= MaxComments
             /\ Respond("create_comment", arg,
                    CommentResponse(200, next_comment_id(db),
                        [u \in Users |-> [mention |-> mentioned[u],
                                          comment |-> commented[u]]]),
                    [db EXCEPT !.comments = @ \cup
                        {[id |-> next_comment_id(db),
                          contract_id |-> contract_id, user_id |-> user,
                          content |-> [content EXCEPT
                                          !.text = strip(@)]]}])

\* the rows of comments with the id, in the contract
get_comment(rows, contract_id, comment_id) ==
    {c \in rows.comments : c.id = comment_id /\ c.contract_id = contract_id}

\* PUT /contracts/{contract_id}/comments/{comment_id}
update_comment(user, contract_id, comment_id, content) ==
    LET arg == [user |-> user, contract_id |-> contract_id,
                comment_id |-> comment_id, content |-> content]
        comment == get_comment(db, contract_id, comment_id)
    IN  IF comment = {}
        THEN Respond("update_comment", arg,
                     CommentResponse(404, 0, NoNotifications), db)
        ELSE IF \E c \in comment : c.user_id # user
        THEN Respond("update_comment", arg,
                     CommentResponse(403, 0, NoNotifications), db)
        ELSE Respond("update_comment", arg,
                 CommentResponse(200, comment_id, NoNotifications),
                 [db EXCEPT !.comments =
                     (@ \ comment) \cup
                     {[c EXCEPT !.content = [content EXCEPT
                                                !.text = strip(@)]] :
                         c \in comment}])

\* delete_comment, lines 241-253: TRUE when the caller may delete
may_delete_all_members(rows, user, contract, comment) ==
    \/ comment.user_id = user
    \/ /\ contract.team_id # "None"
       /\ get_team_member(rows, contract.team_id, user) # {}
may_delete(rows, user, contract, comment) ==
    \/ comment.user_id = user
    \/ /\ contract.team_id # "None"
       /\ \E member \in get_team_member(rows, contract.team_id, user) :
              "comment.delete_any" \in permissions_of(member.role)

\* DELETE /contracts/{contract_id}/comments/{comment_id}
delete_comment(user, contract_id, comment_id) ==
    LET arg == [user |-> user, contract_id |-> contract_id,
                comment_id |-> comment_id]
        team_ids == _user_team_ids(db, user)
        contract == _get_accessible_contract(db, contract_id, user, team_ids)
        comment == get_comment(db, contract_id, comment_id)
    IN  IF contract.value = 0
        THEN Respond("delete_comment", arg,
                     CommentResponse(404, 0, NoNotifications), db)
        ELSE IF comment = {}
        THEN Respond("delete_comment", arg,
                     CommentResponse(404, 0, NoNotifications), db)
        ELSE IF \E c \in comment :
                    ~ may_delete(db, user, db.contracts[contract_id], c)
        THEN Respond("delete_comment", arg,
                     CommentResponse(403, 0, NoNotifications), db)
        ELSE Respond("delete_comment", arg,
                 CommentResponse(200, comment_id, NoNotifications),
                 [db EXCEPT !.comments = @ \ comment])

\* the contents posted: plain texts, one of them blank
PlainContents ==
    { Content(Str("a", FALSE), <<>>), Content(Str("b", TRUE), <<>>),
      Content(Str("", TRUE), <<>>) }

InitComments ==
    /\ files = NoFiles
    /\ used = {}
    /\ req = [r \in Requests |-> InitRequest]
    /\ pdf = [pc |-> "idle", doc |-> <<>>, result |-> NoPdfResult]
    /\ call = NoCall
    /\ db = NoCommentRows

\* the comments of one contract: the ids asked for are 1 and an id past the
\* rows of contracts
NextComments ==
    \/ \E user \in Users :
           create_team(user, FALSE) /\ UNCHANGED <<files, used, req, pdf>>
    \/ \E user \in Users, team_id \in TeamIds, target \in Users :
           invite_member(user, team_id, target)
           /\ UNCHANGED <<files, used, req, pdf>>
    \/ \E user \in Users, team_id \in TeamIds, target \in Users,
          role \in RoleUpdates :
           update_member_role(user, team_id, target, role)
           /\ UNCHANGED <<files, used, req, pdf>>
    \/ \E user \in Users, team_id \in TeamIds \cup {"None"} :
           /\ db.contracts = <<>>
           /\ save_contract(user, "X", team_id)
           /\ UNCHANGED <<files, used, req, pdf>>
    \/ \E user \in Users, contract_id \in {1, Len(db.contracts) + 1},
          content \in PlainContents :
           create_comment(user, contract_id, content)
           /\ UNCHANGED <<files, used, req, pdf>>
    \/ \E user \in Users, contract_id \in {1, Len(db.contracts) + 1},
          comment_id \in 1..MaxComments, content \in PlainContents :
           update_comment(user, contract_id, comment_id, content)
           /\ UNCHANGED <<files, used, req, pdf>>
    \/ \E user \in Users, contract_id \in {1, Len(db.contracts) + 1},
          comment_id \in 1..MaxComments :
           delete_comment(user, contract_id, comment_id)
           /\ UNCHANGED <<files, used, req, pdf>>

SpecComments == InitComments /\ [][NextComments]_vars

\* the contents posted on a team contract: without a mention, with the
\* e-mail of a user mentioned once or twice, and mentioned at the end of a
\* sentence
MentionContents ==
    {Content(Str("a", FALSE), <<>>)}
    \cup {Content(Str("a", FALSE), <<Mention(u, tail)>>) :
            u \in Users, tail \in {"", "."}}
    \cup {Content(Str("a", FALSE), <<Mention(u, ""), Mention(u, "")>>) :
            u \in Users}

\* the notifications of the comments on one contract
NextMentions ==
    \/ \E user \in Users :
           create_team(user, FALSE) /\ UNCHANGED <<files, used, req, pdf>>
    \/ \E user \in Users, team_id \in TeamIds, target \in Users :
           invite_member(user, team_id, target)
           /\ UNCHANGED <<files, used, req, pdf>>
    \/ \E user \in Users, team_id \in TeamIds \cup {"None"} :
           /\ db.contracts = <<>>
           /\ save_contract(user, "X", team_id)
           /\ UNCHANGED <<files, used, req, pdf>>
    \/ \E user \in Users, contract_id \in {1, Len(db.contracts) + 1},
          content \in MentionContents :
           create_comment(user, contract_id, content)
           /\ UNCHANGED <<files, used, req, pdf>>

SpecMentions == InitComments /\ [][NextMentions]_vars

\* ------------------------------------------------- contracts.py: the tasks
\* db has also tasks |-> per contract id the list stored in the tasks column
\* (<<>> for a column that is NULL or []), each task a record
\* [task_id |-> the JSON value under "task_id", task_name |-> its name].
\* A text is [prefix |-> "TASK-" or "", word |-> a body that is not a
\* number, n and width |-> the value and the number of digits of a body
\* that is a number]: "TASK-001" is IdText("TASK-", "", 1, 3), "1" is
\* IdText("", "", 1, 1) and "None" is IdText("", "None", 0, 0).

IdText(prefix, word, n, width) ==
    [prefix |-> prefix, word |-> word, n |-> n, width |-> width]

\* the JSON values of "task_id": a string, an integer, or no such key
JsonStr(text) == [kind |-> "str", int |-> 0, text |-> text]

JsonInt(n) == [kind |-> "int", int |-> n, text |-> IdText("", "", 0, 0)]

Missing == [kind |-> "missing", int |-> 0, text |-> IdText("", "", 0, 0)]

Task(task_id, task_name) == [task_id |-> task_id, task_name |-> task_name]

\* str(value) of a value dict.get returned; None prints as "None"
str(value) ==
    IF value.kind = "str" THEN value.text
    ELSE IF value.kind = "int"
    THEN IdText("", "", value.int, Digits(value.int))
    ELSE IdText("", "None", 0, 0)

\* t.get("task_id") and t.get("task_id", 0)
get_task_id(t) == t.task_id

get_task_id_or_0(t) == IF t.task_id.kind = "missing" THEN JsonInt(0)
                       ELSE t.task_id

\* text.replace("TASK-", "")
replace_TASK(text) == [text EXCEPT !.prefix = ""]

\* str.isdigit() and int()
isdigit(text) == text.prefix = "" /\ text.word = "" /\ text.width > 0

int(text) == text.n

\* f"TASK-{n:03d}"
format_task_id(n) == IdText("TASK-", "", n, Max(3, Digits(n)))

\* max(list or [0]) of a set of naturals
max_or_0(numbers) ==
    IF numbers = {} THEN 0
    ELSE CHOOSE m \in numbers : \A k \in numbers : k <= m

\* add_task, lines 604-606: the id of the new task
new_task_id(tasks) ==
    LET existing_ids == [i \in DOMAIN tasks |-> get_task_id_or_0(tasks[i])]
        numbers == {int(replace_TASK(str(existing_ids[i]))) :
                       i \in {j \in DOMAIN existing_ids :
                                 isdigit(replace_TASK(str(existing_ids[j])))}}
    IN  format_task_id(max_or_0(numbers) + 1)

\* [t for t in tasks if cond(t)]
RECURSIVE tasks_where_not(_, _)
tasks_where_not(tasks, task_id) ==
    IF tasks = <<>> THEN <<>>
    ELSE IF str(get_task_id(Head(tasks))) # task_id
    THEN <<Head(tasks)>> \o tasks_where_not(Tail(tasks), task_id)
    ELSE tasks_where_not(Tail(tasks), task_id)

\* bound: the tasks of a contract
MaxTasks == 2

TaskResponse(status, task_id) == [status |-> status, task_id |-> task_id]

NoTaskId == IdText("", "", 0, 0)

\* POST /contracts/{contract_id}/tasks (without an assignee), run without
\* another request in between
add_task(user, contract_id, task_name) ==
    LET arg == [user |-> user, contract_id |-> contract_id,
                task_name |-> task_name]
        team_ids == _user_team_ids(db, user)
        contract == _get_accessible_contract(db, contract_id, user, team_ids)
        tasks == db.tasks[contract_id]
        new_task == Task(JsonStr(new_task_id(tasks)), task_name)
    IN  IF contract.value = 0
        THEN Respond("add_task", arg, TaskResponse(404, NoTaskId), db)
        ELSE /\ Len(tasks) < MaxTasks
             /\ Respond("add_task", arg,
                    TaskResponse(200, new_task.task_id.text),
                    [db EXCEPT !.tasks[contract_id] = Append(@, new_task)])

\* DELETE /contracts/{contract_id}/tasks/{task_id}
delete_task(user, contract_id, task_id) ==
    LET arg == [user |-> user, contract_id |-> contract_id,
                task_id |-> task_id]
        team_ids == _user_team_ids(db, user)
        contract == _get_accessible_contract(db, contract_id, user, team_ids)
        tasks == db.tasks[contract_id]
        kept == tasks_where_not(tasks, task_id)
    IN  IF contract.value = 0
        THEN Respond("delete_task", arg, TaskResponse(404, NoTaskId), db)
        ELSE IF tasks = <<>>
        THEN Respond("delete_task", arg, TaskResponse(404, NoTaskId), db)
        ELSE IF Len(kept) = Len(tasks)
        THEN Respond("delete_task", arg, TaskResponse(404, NoTaskId), db)
        ELSE Respond("delete_task", arg, TaskResponse(200, task_id),
                [db EXCEPT !.tasks[contract_id] = kept])

\* the values of "task_id" stored: contracts are saved with any list of
\* dicts as tasks, the extraction numbers its tasks 1, 2, ... and add_task
\* writes "TASK-001", ...
TaskIdValues ==
    { JsonStr(format_task_id(1)), JsonStr(format_task_id(2)), JsonInt(1),
      Missing }

\* the lists of tasks a contract is saved with; a task's name is its place
RECURSIVE TaskListsOf(_)
TaskListsOf(n) ==
    IF n = 0 THEN {<<>>}
    ELSE LET shorter == TaskListsOf(n - 1)
         IN  shorter \cup
             {Append(l, Task(v, Len(l) + 1)) :
                 l \in {x \in shorter : Len(x) = n - 1}, v \in TaskIdValues}

TaskLists == TaskListsOf(MaxTasks)

\* the task ids asked for in the path
PathTaskIds ==
    { format_task_id(1), format_task_id(2), format_task_id(3),
      IdText("", "", 1, 1), IdText("", "None", 0, 0) }

\* alice's personal contract "X", saved with a list of tasks
InitTasks ==
    /\ files = NoFiles
    /\ used = {}
    /\ req = [r \in Requests |-> InitRequest]
    /\ pdf = [pc |-> "idle", doc |-> <<>>, result |-> NoPdfResult]
    /\ call = NoCall
    /\ \E tasks \in TaskLists :
          db = [teams |-> {}, team_members |-> {},
                contracts |-> <<[user_id |-> "alice", team_id |-> "None",
                                 contract_name |-> "X"]>>,
                tasks |-> [i \in 1..MaxContracts |->
                              IF i = 1 THEN tasks ELSE <<>>]]

NextTasks ==
    \/ \E user \in Users, contract_id \in 1..MaxContracts :
           add_task(user, contract_id, MaxTasks + 1)
           /\ UNCHANGED <<files, used, req, pdf>>
    \/ \E user \in Users, contract_id \in 1..MaxContracts,
          task_id \in PathTaskIds :
           delete_task(user, contract_id, task_id)
           /\ UNCHANGED <<files, used, req, pdf>>

SpecTasks == InitTasks /\ [][NextTasks]_vars

\* -------------------- HWPParser._extract_text_from_bodytext on its own
\* data is the sequence of the bytes of a section, a str the sequence of
\* the code points of its characters.

\* struct.unpack("<H", data[i : i + 2])[0], i counted from 0
unpack_H_big_endian(data, i) == data[i + 1] * 256 + data[i + 2]

unpack_H(data, i) == data[i + 1] + data[i + 2] * 256

\* what the loop body appends to text for one char_code
text_append(char_code) ==
    IF (32 <= char_code /\ char_code < 55296)
           \/ (44032 <= char_code /\ char_code <= 55203)
    THEN <<char_code>>
    ELSE IF char_code = 13 \/ char_code = 10 THEN <<10>>
    ELSE IF char_code = 9 THEN <<9>>
    ELSE <<>>

\* the loop  while i < len(data) - 1: ...; i += 2
RECURSIVE bodytext_from(_, _)
bodytext_from(data, i) ==
    IF i < Len(data) - 1
    THEN text_append(unpack_H(data, i)) \o bodytext_from(data, i + 2)
    ELSE <<>>

_extract_text_from_bodytext(data) == bodytext_from(data, 0)

\* the most bytes of a section
MaxBodyBytes == 4

\* bytes from which the code units at the edges of each range are built:
\* 0x00 0x09 0x0A 0x0D 0x1F 0x20 0xAC 0xD7 0xD8 0xFF
BodyBytes == {0, 9, 10, 13, 31, 32, 172, 215, 216, 255}

\* the sections of up to MaxBodyBytes bytes
BodyData == UNION {[1..n -> BodyBytes] : n \in 0..MaxBodyBytes}

InitBodytext ==
    /\ files = NoFiles
    /\ used = {}
    /\ req = [r \in Requests |-> InitRequest]
    /\ pdf = [pc |-> "idle", doc |-> <<>>, result |-> NoPdfResult]
    /\ db = NoRows
    /\ call \in { [pc |-> "idle", op |-> "_extract_text_from_bodytext",
                   arg |-> d, result |-> NoneValue] : d \in BodyData }

ExtractBodytext ==
    /\ call.pc = "idle"
    /\ call.op = "_extract_text_from_bodytext"
    /\ call' = [call EXCEPT !.pc = "done",
                            !.result = _extract_text_from_bodytext(call.arg)]
    /\ UNCHANGED <<files, used, req, pdf, db>>

NextBodytext == ExtractBodytext

SpecBodytext == InitBodytext /\ [][NextBodytext]_vars

\* --------------------------- contracts.py requests of the members of a team
\* alice has created team t1 and invited bob, who joined as member; no
\* contract is saved yet
InitPermissions ==
    /\ files = NoFiles
    /\ used = {}
    /\ req = [r \in Requests |-> InitRequest]
    /\ pdf = [pc |-> "idle", doc |-> <<>>, result |-> NoPdfResult]
    /\ call = NoCall
    /\ \E team_id \in TeamIds :
          db = [teams |-> {team_id},
                team_members |->
                    {[team_id |-> team_id, user_id |-> "alice",
                      role |-> "owner"],
                     [team_id |-> team_id, user_id |-> "bob",
                      role |-> "member"]},
                contracts |-> <<>>,
                tasks |-> [i \in 1..MaxContracts |-> <<>>]]

NextPermissions ==
    \/ \E user \in Users, team_id \in TeamIds, target \in Users,
          role \in RoleUpdates :
           update_member_role(user, team_id, target, role)
           /\ UNCHANGED <<files, used, req, pdf>>
    \/ \E user \in Users, team_id \in TeamIds \cup {"None"} :
           /\ db.contracts = <<>>
           /\ save_contract(user, "X", team_id)
           /\ UNCHANGED <<files, used, req, pdf>>
    \/ \E user \in Users, contract_id \in {1, Len(db.contracts) + 1},
          contract_name \in Names :
           update_contract(user, contract_id, contract_name)
           /\ UNCHANGED <<files, used, req, pdf>>
    \/ \E user \in Users, contract_id \in {1, Len(db.contracts) + 1} :
           add_task(user, contract_id, MaxTasks + 1)
           /\ UNCHANGED <<files, used, req, pdf>>
    \/ \E user \in Users, contract_id \in {1, Len(db.contracts) + 1} :
           delete_task(user, contract_id, format_task_id(1))
           /\ UNCHANGED <<files, used, req, pdf>>

SpecPermissions == InitPermissions /\ [][NextPermissions]_vars

\* ------------------------------------------ teams.py: the members of teams
InitTeams ==
    /\ files = NoFiles
    /\ used = {}
    /\ req = [r \in Requests |-> InitRequest]
    /\ pdf = [pc |-> "idle", doc |-> <<>>, result |-> NoPdfResult]
    /\ call = NoCall
    /\ db = NoRows

NextTeams ==
    \/ \E user \in Users, blank_name \in BOOLEAN :
           create_team(user, blank_name)
           /\ UNCHANGED <<files, used, req, pdf>>
    \/ \E user \in Users, team_id \in TeamIds,
          target \in Users \cup {"nobody"} :
           invite_member(user, team_id, target)
           /\ UNCHANGED <<files, used, req, pdf>>
    \/ \E user \in Users, team_id \in TeamIds, target \in Users :
           remove_member(user, team_id, target)
           /\ UNCHANGED <<files, used, req, pdf>>
    \/ \E user \in Users, team_id \in TeamIds, target \in Users,
          role \in RoleUpdates :
           update_member_role(user, team_id, target, role)
           /\ UNCHANGED <<files, used, req, pdf>>

SpecTeams == InitTeams /\ [][NextTeams]_vars

\* ------------------------------ add_task requests served at the same time
\* Each request has its own AsyncSession (get_db). call is here a function
\* of the request: pc is "idle", "selected" (the session holds the contract
\* row it selected and the handler waits in _resolve_assignee or commit)
\* or "done"; tasks is contract.tasks as the session holds it.

AddRequests == {"a1", "a2"}

\* the task_name each request sends
TaskNameOf(r) == IF r = "a1" THEN MaxTasks + 1 ELSE MaxTasks + 2

IdleAddTask ==
    [pc |-> "idle", op |-> "add_task",
     arg |-> [user |-> "None", contract_id |-> 0, task_name |-> 0],
     result |-> TaskResponse(0, NoTaskId), tasks |-> <<>>]

\* add_task up to the contract row the session selects
add_task_select(r, user, contract_id) ==
    LET arg == [user |-> user, contract_id |-> contract_id,
                task_name |-> TaskNameOf(r)]
        team_ids == _user_team_ids(db, user)
        contract == _get_accessible_contract(db, contract_id, user, team_ids)
    IN  /\ call[r].pc = "idle"
        /\ call' = [call EXCEPT ![r] =
               IF contract.value = 0
               THEN [@ EXCEPT !.pc = "done", !.arg = arg,
                              !.result = TaskResponse(404, NoTaskId)]
               ELSE [@ EXCEPT !.pc = "selected", !.arg = arg,
                              !.tasks = db.tasks[contract_id]]]
        /\ UNCHANGED db

\* add_task from the new task_id to the commit: the UPDATE writes the
\* session's whole list into contracts.tasks
add_task_commit(r) ==
    LET tasks == call[r].tasks
        new_task == Task(JsonStr(new_task_id(tasks)), call[r].arg.task_name)
    IN  /\ call[r].pc = "selected"
        /\ call' = [call EXCEPT ![r] =
               [@ EXCEPT !.pc = "done", !.tasks = Append(tasks, new_task),
                         !.result = TaskResponse(200, new_task.task_id.text)]]
        /\ db' = [db EXCEPT !.tasks[call[r].arg.contract_id] =
                                Append(tasks, new_task)]

InitAddTasks ==
    /\ files = NoFiles
    /\ used = {}
    /\ req = [r \in Requests |-> InitRequest]
    /\ pdf = [pc |-> "idle", doc |-> <<>>, result |-> NoPdfResult]
    /\ call = [r \in AddRequests |-> IdleAddTask]
    /\ \E tasks \in TaskLists :
          db = [teams |-> {}, team_members |-> {},
                contracts |-> <<[user_id |-> "alice", team_id |-> "None",
                                 contract_name |-> "X"]>>,
                tasks |-> [i \in 1..MaxContracts |->
                              IF i = 1 THEN tasks ELSE <<>>]]

NextAddTasks ==
    \/ \E r \in AddRequests, user \in Users :
           add_task_select(r, user, 1)
           /\ UNCHANGED <<files, used, req, pdf>>
    \/ \E r \in AddRequests :
           add_task_commit(r)
           /\ UNCHANGED <<files, used, req, pdf>>

SpecAddTasks == InitAddTasks /\ [][NextAddTasks]_vars

\* ================================================================== claims
Finished(r) == req[r].pc = "done"

\* C1: after upload_and_extract has finished by any exit path, no temporary
\* file created for the request remains in the upload directory.
C1_NoTempFileRemains ==
    \A r \in Requests :
        (Finished(r) /\ req[r].file_path # None)
            => files[req[r].file_path] = Absent

\* C2: a JSON response without the contract_schedule key makes the
\* extraction fail, and a response whose contract_schedule object is present
\* with null fields (and valid items and tasks) is accepted.
C2_MissingScheduleKeyFails ==
    \A r \in Requests :
        (Finished(r) /\ req[r].reply.call = "ok"
                     /\ req[r].reply.json = "object")
        => LET cs == req[r].reply.contract_schedule
               tl == req[r].reply.task_list
           IN  /\ cs.key = "absent" => ~ req[r].response.success
               /\ ( /\ cs.key = "object" /\ cs.fields = "null"
                    /\ \A i \in 1..Len(cs.schedules) : cs.schedules[i] = "ok"
                    /\ \A i \in 1..Len(tl.items) : tl.items[i] = "ok" )
                  => req[r].response.success

\* the extraction failed: the model call raised, its text was not JSON, or
\* the JSON failed the ContractSchedule / TaskItem validation
ExtractionFailure(r) ==
    \/ req[r].reply.call = "error"
    \/ req[r].reply.call = "ok" /\ req[r].reply.json = "invalid"
    \/ /\ req[r].reply.call = "ok" /\ req[r].reply.json = "object"
       /\ req[r].reply.contract_schedule.key # "null"
       /\ \/ req[r].reply.contract_schedule.fields = "bad"
          \/ \E i \in 1..Len(req[r].reply.contract_schedule.schedules) :
                 req[r].reply.contract_schedule.schedules[i] = "bad"
          \/ \E i \in 1..Len(req[r].reply.task_list.items) :
                 req[r].reply.task_list.items[i] = "bad"

\* C3: every extraction failure is answered with a 5xx status, never a 4xx.
C3_ExtractionFailureIs5xx ==
    \A r \in Requests :
        (Finished(r) /\ ExtractionFailure(r)) => req[r].response.status >= 500

\* a format, size or content error: unsupported extension, magic-byte
\* mismatch, file too large, a container the parser cannot open, or a parse
\* with neither text nor images
FormatSizeContentError(r) ==
    \/ req[r].response.msg \in {"unsupported", "mismatch", "too_large"}
    \/ /\ req[r].saved_path # None /\ req[r].reply.call = "none"
       /\ \/ req[r].upload.body.kind \in
                 {"broken", "unreadable", "badzip", "notole", "noheader"}
          \/ req[r].parsed /\ NoContent(req[r].parse_result)

\* C4: every format, size or content error is answered with a 4xx status,
\* never a 5xx.
C4_FormatErrorIs4xx ==
    \A r \in Requests :
        (Finished(r) /\ FormatSizeContentError(r))
            => (req[r].response.status >= 400 /\ req[r].response.status < 500)

\* C5: a response is either a success carrying the validated schedule with
\* all schedule items and the complete task list of the model response, or an
\* error carrying neither a schedule nor tasks; a failed model call or one
\* invalid item or task leaves nothing surfaced.
C5_AllOrNothing ==
    \A r \in Requests :
        Finished(r) =>
            IF req[r].response.success
            THEN /\ req[r].response.status = 200
                 /\ req[r].reply.call = "ok" /\ req[r].reply.json = "object"
                 /\ req[r].reply.contract_schedule.fields # "bad"
                 /\ \A i \in 1..Len(req[r].reply.contract_schedule.schedules) :
                        req[r].reply.contract_schedule.schedules[i] = "ok"
                 /\ \A i \in 1..Len(req[r].reply.task_list.items) :
                        req[r].reply.task_list.items[i] = "ok"
                 /\ req[r].response.contract_schedule.kind = "ContractSchedule"
                 /\ req[r].response.contract_schedule.schedules
                        = req[r].reply.contract_schedule.schedules
                 /\ req[r].response.task_list.kind = "list"
                 /\ req[r].response.task_list.items
                        = req[r].reply.task_list.items
            ELSE /\ req[r].response.status >= 400
                 /\ req[r].response.contract_schedule = NoneValue
                 /\ req[r].response.task_list = NoneValue

\* a successful response with tasks and schedule items
C5_Witness ==
    \E r \in Requests :
        /\ Finished(r) /\ req[r].response.success
        /\ Len(req[r].response.task_list.items) >= 2
        /\ Len(req[r].response.contract_schedule.schedules) >= 1

\* the first bytes of the upload match a signature documented for the
\* extension
MatchesSignature(r) ==
    \E m \in expected_magics(req[r].extension) :
        StartsWith(req[r].upload.head, m)

\* C6: for every supported extension save_upload_file accepts an upload
\* whose first bytes match one of the extension's signatures and rejects one
\* whose first bytes match none of them (uploads that end by a broken read
\* or by the size limit left aside).
C6_MagicBytesDecide ==
    \A r \in Requests :
        ( /\ Finished(r)
          /\ req[r].extension \in get_supported_extensions
          /\ req[r].response.msg \notin {"read", "too_large"} )
        => IF MatchesSignature(r)
           THEN req[r].saved_path # None
           ELSE req[r].saved_path = None /\ req[r].response.msg = "mismatch"

\* C7: save_upload_file raises the too-large error as soon as the chunks
\* read exceed max_file_size, never has more than max_file_size bytes on
\* disk, leaves no partial file behind, and accepts and writes in full an
\* upload of exactly max_file_size bytes.
C7_SizeLimit ==
    \A r \in Requests :
        LET q == req[r]
        IN  /\ (q.file_path # None /\ files[q.file_path] # Absent)
                => (files[q.file_path] <= MaxFileSize
                    /\ files[q.file_path] <= q.upload.size)
            /\ q.response.msg = "too_large"
                => /\ q.saved_path = None
                   /\ files[q.file_path] = Absent
                   /\ q.upload.size > MaxFileSize
                   /\ q.total_size > MaxFileSize
                   /\ q.total_size - ChunkSize <= MaxFileSize
                   /\ q.response.status = 400
            /\ (q.pc = "finally" /\ q.upload.size > MaxFileSize)
                => q.response.msg \in
                       {"too_large", "unsupported", "mismatch", "read"}
            /\ q.pc = "parsing"
                => /\ q.upload.size <= MaxFileSize
                   /\ files[q.saved_path] = q.upload.size
            /\ (q.upload.size = MaxFileSize /\ q.pc = "finally")
                => q.response.msg # "too_large"

\* an upload over the limit has been rejected mid-stream and unlinked
C7_Witness ==
    \E r \in Requests :
        /\ Finished(r)
        /\ req[r].response.msg = "too_large"
        /\ req[r].upload.size > MaxFileSize + ChunkSize
        /\ req[r].total_size < req[r].upload.size
        /\ files[req[r].file_path] = Absent

\* C8 as stated: no parser returns a ParseResult with empty text and no
\* images.
C8_NoEmptyParseResult ==
    \A r \in Requests :
        req[r].parsed =>
            (has_text(req[r].parse_result) \/ has_images(req[r].parse_result))

\* C8 amended: ImageParser never returns a ParseResult with empty text and
\* no images; the PDF, DOCX and HWP/HWPX parsers return that state when
\* nothing could be extracted, and upload_and_extract then answers with an
\* error without calling the model.
C8_EmptyParseResultRejected ==
    \A r \in Requests :
        (req[r].parsed /\ ~ has_text(req[r].parse_result)
                       /\ ~ has_images(req[r].parse_result))
        => /\ _parsers[req[r].extension] # "ImageParser"
           /\ req[r].pc \in {"finally", "done"}
           /\ ~ req[r].response.success
           /\ req[r].response.status >= 400
           /\ req[r].reply.call = "none"

\* a parser has returned an empty ParseResult and the request has finished
C8_Witness ==
    \E r \in Requests :
        /\ Finished(r) /\ req[r].parsed
        /\ ~ has_text(req[r].parse_result)
        /\ ~ has_images(req[r].parse_result)

\* ---- claims about PDFParser.parse (SpecPdf)
HasEmptyPage(doc) == \E n \in 1..Len(doc) : doc[n].len = 0

\* C9 as stated: a PDF with at least one page without text is rendered and
\* the result has a non-empty images list.
C9_EmptyPageGivesImages ==
    (pdf.pc = "done" /\ HasEmptyPage(pdf.doc))
        => (pdf.result.rendered /\ pdf.result.images # <<>>)

\* the first of the first MAX_IMAGE_PAGES pages that renders has a PNG that
\* fits the total ceiling at the scale chosen for it
FirstRenderedPageFits(doc) ==
    \E k \in 1..Min(Len(doc), MAX_IMAGE_PAGES) :
        /\ doc[k].render # <<>>
        /\ \A j \in 1..(k - 1) : doc[j].render = <<>>
        /\ \/ \E i \in 1..3 : doc[k].render[i] <= MAX_IMAGE_BYTES_PER_PAGE
           \/ doc[k].render[3] <= MAX_TOTAL_IMAGE_BYTES

\* C9 amended: for every PDF with at least one page that yields no text,
\* PDFParser.parse attempts image rendering, even if all other pages are
\* text-rich; the images list is non-empty exactly when one of the first 20
\* pages renders and the first that does is at most 18 MB.
C9_EmptyPageIsRendered ==
    (pdf.pc = "done" /\ HasEmptyPage(pdf.doc))
        => /\ pdf.result.rendered
           /\ (pdf.result.images # <<>>) <=> FirstRenderedPageFits(pdf.doc)

\* a document with a text-rich page and an empty page has been rendered
C9_Witness ==
    /\ pdf.pc = "done"
    /\ HasEmptyPage(pdf.doc)
    /\ \E n \in 1..Len(pdf.doc) : pdf.doc[n].len >= TEXT_THRESHOLD
    /\ pdf.result.images # <<>>

\* likely-scanned as the claim words it
LikelyScanned(doc) ==
    \/ Len(doc) = 0
    \/ \E n \in 1..Len(doc) : doc[n].len = 0
    \/ clean_text(doc).len < 50 * Len(doc)
    \/ 10 * clean_text(doc).mf < 3 * clean_text(doc).len

\* C10: PDFParser.parse returns a text-only result (no images, nothing
\* rendered) exactly when the cleaned text has at least 100 characters and
\* the document is not likely-scanned; otherwise it goes to image rendering.
C10_TextOnlyExactlyWhen ==
    pdf.pc = "done" =>
        /\ (~ pdf.result.rendered)
              <=> (clean_text(pdf.doc).len >= 100 /\ ~ LikelyScanned(pdf.doc))
        /\ (~ pdf.result.rendered) => pdf.result.images = <<>>
        /\ (~ pdf.result.rendered) => pdf.result.text = total_text(pdf.doc)

\* a text-only result for a document at the thresholds: 100 cleaned
\* characters on two pages, three in ten of them meaningful or more
C10_Witness ==
    /\ pdf.pc = "done"
    /\ ~ pdf.result.rendered
    /\ Len(pdf.doc) = 2
    /\ clean_text(pdf.doc).len = 100

\* the PNG _render_page_optimized returns for page k of doc, which renders
Chosen(doc, k) == _render_page_optimized(doc[k]).value

\* the pages _render_pages_as_images looks at that render
Renders(doc) ==
    {k \in 1..Min(Len(doc), MAX_IMAGE_PAGES) : doc[k].render # <<>>}

\* bytes of the PNGs chosen for the pages before page k that render
RECURSIVE BytesBefore(_, _)
BytesBefore(doc, k) ==
    IF k <= 1 THEN 0
    ELSE BytesBefore(doc, k - 1)
         + (IF (k - 1) \in Renders(doc) THEN Chosen(doc, k - 1).size ELSE 0)

\* the pages whose PNG would take the running total past the ceiling
OverBudget(doc) ==
    {k \in Renders(doc) :
        BytesBefore(doc, k) + Chosen(doc, k).size > MAX_TOTAL_IMAGE_BYTES}

\* unconstrained render sizes [2MB, 2MB, 20MB]
SpecExample(doc) ==
    /\ Len(doc) = 3
    /\ \A k \in 1..3 : doc[k].render # <<>>
    /\ doc[1].render[1] = 2 /\ doc[2].render[1] = 2 /\ doc[3].render[1] = 20

\* C11: the byte sizes of the images returned by PDF page rendering never
\* sum to more than MAX_TOTAL_IMAGE_BYTES (18 MB); for unconstrained sizes
\* [2MB, 2MB, 20MB] pages 1 and 2 are included in full and page 3 is not
\* included at a size that takes the total over the ceiling.
C11_TotalWithinCeiling ==
    (pdf.pc = "done" /\ pdf.result.rendered) =>
        LET images == pdf.result.images
        IN  /\ SumField(images, "size") <= MAX_TOTAL_IMAGE_BYTES
            /\ SpecExample(pdf.doc) =>
                  /\ Len(images) >= 2
                  /\ images[1] = [page |-> 1, scale |-> 20, size |-> 2]
                  /\ images[2] = [page |-> 2, scale |-> 20, size |-> 2]
                  /\ \A i \in 1..Len(images) :
                        images[i].page = 3 =>
                            4 + images[i].size <= MAX_TOTAL_IMAGE_BYTES

\* pages that fit on their own were rendered and the last one was left out
\* because it would take the total past the ceiling
C11_Witness ==
    /\ pdf.pc = "done" /\ pdf.result.rendered
    /\ Len(pdf.doc) = 3
    /\ Renders(pdf.doc) = {1, 2, 3}
    /\ \A k \in 1..3 : Chosen(pdf.doc, k).size <= MAX_TOTAL_IMAGE_BYTES
    /\ Len(pdf.result.images) = 2
    /\ SumField(pdf.result.images, "size") > MAX_IMAGE_BYTES_PER_PAGE

\* C12: PDF page rendering is greedy-and-stop: the images are in ascending
\* page order, every page that renders before the first over-budget page is
\* included, and no page from the first over-budget page on is included,
\* even if it would fit on its own.
C12_GreedyAndStop ==
    (pdf.pc = "done" /\ pdf.result.rendered) =>
        LET images == pdf.result.images
            doc == pdf.doc
        IN  /\ \A i \in 1..Len(images) : \A j \in 1..Len(images) :
                  i < j => images[i].page < images[j].page
            /\ {images[i].page : i \in 1..Len(images)} =
                  {k \in Renders(doc) : \A o \in OverBudget(doc) : k < o}
            /\ \A i \in 1..Len(images) :
                  /\ images[i].page \in Renders(doc)
                  /\ images[i].scale = Chosen(doc, images[i].page).scale
                  /\ images[i].size = Chosen(doc, images[i].page).size

\* rendering stopped at page 2 although page 3 would have fitted
C12_Witness ==
    /\ pdf.pc = "done" /\ pdf.result.rendered
    /\ Len(pdf.doc) = 3
    /\ 2 \in OverBudget(pdf.doc)
    /\ 3 \in Renders(pdf.doc)
    /\ BytesBefore(pdf.doc, 2) + Chosen(pdf.doc, 3).size
          <= MAX_TOTAL_IMAGE_BYTES
    /\ Len(pdf.result.images) = 1

\* ---- claims about HWPParser._extract_text_from_xml (SpecXml)
\* the text and tail nodes of an element in document order: its text, its
\* children with what they hold, and after its end tag its tail
RECURSIVE DocumentOrder(_)
RECURSIVE DocumentOrderAll(_)
DocumentOrder(elem) ==
    (IF strip(elem.text).word # "" THEN <<strip(elem.text).word>> ELSE <<>>)
    \o DocumentOrderAll(elem.children)
    \o (IF strip(elem.tail).word # "" THEN <<strip(elem.tail).word>> ELSE <<>>)

DocumentOrderAll(elems) ==
    IF elems = <<>> THEN <<>>
    ELSE DocumentOrder(elems[1]) \o DocumentOrderAll(Tail(elems))

\* C13: the text extracted for a section of well-formed XML is the
\* concatenation of the section's element text and tail text nodes in
\* document order, also when an element with tail text has child elements
\* carrying text, separated by spaces.
C13_DocumentOrder ==
    (call.pc = "done" /\ call.op = "_extract_text_from_xml"
                      /\ call.arg.kind = "xml")
        => call.result = DocumentOrder(call.arg.root)

\* ---- claims about DocxParser._extract_table (SpecTable)
\* str.split(sep) on a token sequence: the pieces between the separators
RECURSIVE SplitTokens(_, _, _)
SplitTokens(tokens, sep, piece) ==
    IF tokens = <<>> THEN <<piece>>
    ELSE IF tokens[1] = sep
         THEN <<piece>> \o SplitTokens(Tail(tokens), sep, <<>>)
         ELSE SplitTokens(Tail(tokens), sep, Append(piece, tokens[1]))

\* the cells of the rendered rows of a rendered table
RenderedRows(text) ==
    LET lines == SplitTokens(text, "\n", <<>>)
    IN  [i \in 1..Len(lines) |-> SplitTokens(lines[i], "|", <<>>)]

\* the trimmed cell texts of a row at the start of each run of equal cells
RunStarts(row) ==
    {i \in 1..Len(row) : i = 1 \/ strip(row[i]) # strip(row[i - 1])}

\* C14: for every table row, _extract_table emits the row's trimmed cell
\* texts in original order with each run of identical consecutive cells
\* collapsed into one and joined by " | "; the rendered row never contains
\* two equal adjacent cells, and equal cells that are not adjacent are kept.
C14_RunsCollapsed ==
    (call.pc = "done" /\ call.op = "_extract_table" /\ call.arg # <<>>)
        => LET table == call.arg
               rendered == RenderedRows(call.result)
           IN  /\ Len(rendered) = Len(table)
               /\ \A r \in 1..Len(table) :
                     LET row == table[r]
                         out == rendered[r]
                     IN  /\ Len(out) = Cardinality(RunStarts(row))
                         /\ \A i \in 1..(Len(out) - 1) : out[i] # out[i + 1]
                         /\ \A i \in 1..Len(out) :
                               \E k \in RunStarts(row) :
                                  /\ Cardinality({j \in RunStarts(row) :
                                                    j <= k}) = i
                                  /\ out[i] = CellTokens(strip(row[k]))

\* the row [" A", "A", "B"] has been rendered as "A | B", and a row with
\* equal cells around another one keeps both
C14_Witness ==
    /\ call.pc = "done" /\ call.op = "_extract_table"
    /\ \/ /\ call.arg = << <<Str("A", TRUE), Str("A", FALSE),
                             Str("B", FALSE)>> >>
          /\ call.result = <<"A", "|", "B">>
       \/ /\ call.arg = << <<Str("A", FALSE), Str("B", FALSE),
                             Str("A", FALSE)>> >>
          /\ call.result = <<"A", "|", "B", "|", "A">>

\* ---- claims about ImageParser.parse (SpecImage)
\* C15: for every uploaded image whose longer dimension exceeds 2048 px,
\* ImageParser.parse returns exactly one PNG buffer whose longer dimension
\* is at most 2048 px and whose byte size is at most 4 MB.
C15_LargeImageIsResized ==
    (/\ call.pc = "done" /\ call.op = "ImageParser.parse"
     /\ call.arg.body.decodable
     /\ Max(call.arg.body.width, call.arg.body.height) > 2048)
        => /\ ~ IsRaise(call.result)
           /\ Len(call.result.value.images) = 1
           /\ LET image == call.result.value.images[1]
              IN  /\ image.fmt = "png" \/ call.arg.extension = "png"
                  /\ Max(image.width, image.height) <= 2048
                  /\ image.size <= 4

\* C16: if converting a non-PNG upload to PNG fails, ImageParser.parse does
\* not fail the request: it returns a ParseResult with empty text and
\* exactly one image buffer holding the original bytes, whatever the size
\* of those original bytes.
C16_ConversionFailureFallsBack ==
    (/\ call.pc = "done" /\ call.op = "ImageParser.parse"
     /\ call.arg.extension # "png"
     /\ IsRaise(_convert_to_png(call.arg.body)))
        => /\ ~ IsRaise(call.result)
           /\ call.result.value.text = EmptyText
           /\ Len(call.result.value.images) = 1
           /\ call.result.value.images[1].fmt = "original"
           /\ call.result.value.images[1].size = call.arg.nbytes

\* ---- claims about GeminiService.extract_schedule (SpecRequests)
\* the parts of one kind in a request, in order
PartsOf(request, kind) == SelectSeq(request.parts, LAMBDA p : p.kind = kind)

\* C17: extract_schedule makes exactly one model request, on the text-only
\* path exactly when images is empty and on the multimodal path exactly when
\* it is not; the text path sends at most the first 12,000 characters of the
\* text; the multimodal path sends every image in its original order, each
\* preceded by its 1-based page label, and a supplementary excerpt of at
\* most 4,000 characters if and only if the parser text is non-blank.
C17_OneRequestPerPath ==
    (call.pc = "done" /\ call.op = "extract_schedule") =>
        LET text == call.arg.text
            images == call.arg.images.items
            request == call.result[1]
        IN  /\ Len(call.result) = 1
            /\ (request.path = "text") <=> (images = <<>>)
            /\ (request.path = "multimodal") <=> (images # <<>>)
            /\ request.path = "text" =>
                  /\ Len(request.parts) = 1
                  /\ request.parts[1].kind = "prompt"
                  /\ request.parts[1].len <= 12000
                  /\ request.parts[1].len = Min(text.len, 12000)
            /\ request.path = "multimodal" =>
                  /\ Len(PartsOf(request, "image")) = Len(images)
                  /\ [i \in 1..Len(images) |->
                        PartsOf(request, "image")[i].data] = images
                  /\ \A k \in 1..Len(request.parts) :
                        request.parts[k].kind = "image" =>
                            /\ k > 1
                            /\ request.parts[k - 1].kind = "label"
                            /\ request.parts[k - 1].n =
                                  Cardinality({j \in 1..k :
                                      request.parts[j].kind = "image"})
                  /\ Len(PartsOf(request, "supplementary")) =
                        (IF text.len > 0 /\ ~ text.blank THEN 1 ELSE 0)
                  /\ \A k \in 1..Len(request.parts) :
                        request.parts[k].kind = "supplementary" =>
                            /\ request.parts[k].len <= 4000
                            /\ request.parts[k].len = Min(text.len, 4000)

\* a multimodal request with two images and a cut supplementary excerpt, or
\* a text request cut at the budget
C17_Witness ==
    /\ call.pc = "done" /\ call.op = "extract_schedule"
    /\ \/ /\ call.result[1].path = "multimodal"
          /\ Len(call.arg.images.items) = 2
          /\ call.arg.text.len > 4000
          /\ Len(PartsOf(call.result[1], "supplementary")) = 1
       \/ /\ call.result[1].path = "text"
          /\ call.arg.text.len > 12000

\* ---- claims about concurrent uploads (SpecConc)
\* the request has removed its own file: by the unlink of the size check or
\* by the cleanup of the finally clause
RemovedOwnFile(q) ==
    \/ q.response.msg = "too_large"
    \/ q.pc = "done" /\ q.saved_path # None

\* C18: concurrent uploads share no mutable state: every save_upload_file
\* call writes to its own fresh path, so in any interleaving of two upload
\* requests a request's file holds exactly the bytes that request has
\* written until that request itself removes it, and the result of a request
\* depends only on its own upload (whether its stream broke included) and
\* on the model's answer to it.
C18_NoSharedState ==
    /\ \A r1 \in DOMAIN req : \A r2 \in DOMAIN req \ {r1} :
          /\ req[r1].file_path # None => req[r1].file_path # req[r2].file_path
          /\ (/\ req[r1].pc = "done" /\ req[r2].pc = "done"
              /\ req[r1].upload = req[r2].upload
              /\ req[r1].reply = req[r2].reply
              /\ (req[r1].response.msg = "read")
                    <=> (req[r2].response.msg = "read"))
                => req[r1].response = req[r2].response
    /\ \A r \in DOMAIN req :
          req[r].file_path # None =>
              files[req[r].file_path] =
                  (IF RemovedOwnFile(req[r]) THEN Absent ELSE req[r].offset)

\* one request has removed its file over the size limit while the file of
\* the other request, written in part, is still there
C18_Witness ==
    \E r1 \in DOMAIN req : \E r2 \in DOMAIN req \ {r1} :
        /\ req[r1].response.msg = "too_large"
        /\ req[r2].pc = "saving"
        /\ req[r2].offset > 0
        /\ files[req[r2].file_path] = req[r2].offset

\* ---- claims about the contracts and teams endpoints (SpecDb)
\* the user is a member of the team now
IsMember(rows, user, team_id) ==
    \E m \in rows.team_members : m.team_id = team_id /\ m.user_id = user

\* the contract is personal and the user's, or of a team the user is in
MayAccess(rows, user, contract) ==
    \/ contract.team_id = "None" /\ contract.user_id = user
    \/ contract.team_id # "None" /\ IsMember(rows, user, contract.team_id)

\* C19: after any sequence of team creation, invitation, member removal and
\* contract save operations, GET /contracts/{id} returns a contract to a
\* user if and only if the contract is personal and owned by that user, or
\* it belongs to a team of which the user is currently a member; every
\* other user receives 404.
C19_AccessIffOwnerOrMember ==
    (call.pc = "done" /\ call.op = "get_contract") =>
        LET id == call.arg.contract_id
            allowed == /\ id \in DOMAIN db.contracts
                       /\ MayAccess(db, call.arg.user, db.contracts[id])
        IN  /\ allowed => call.result = Response(200, id)
            /\ ~ allowed => call.result = Response(404, 0)

\* a user who saved a team contract and has left the team since is answered
\* 404, or a member who did not save the team contract is answered 200
C19_Witness ==
    /\ call.pc = "done" /\ call.op = "get_contract"
    /\ call.arg.contract_id \in DOMAIN db.contracts
    /\ LET contract == db.contracts[call.arg.contract_id]
       IN  /\ contract.team_id # "None"
           /\ \/ /\ contract.user_id = call.arg.user
                 /\ call.result.status = 404
              \/ /\ contract.user_id # call.arg.user
                 /\ ~ \E m \in db.team_members :
                        m.user_id = call.arg.user /\ m.role = "owner"
                 /\ call.result.status = 200

\* the contracts of the tables with this name that the user may access
SameName(rows, user, contract_name) ==
    {i \in DOMAIN rows.contracts :
        /\ rows.contracts[i].contract_name = contract_name
        /\ MayAccess(rows, user, rows.contracts[i])}

\* C20: save_contract with a contract_name equal to the name of any contract
\* already accessible to the caller responds 409 and creates no contract,
\* and update_contract renaming a contract to the name of another accessible
\* contract responds 409 and leaves the contract unchanged, whatever
\* sequence of saves, updates and team membership changes came before.
C20_DuplicateNameIs409 ==
    /\ (/\ call.pc = "done" /\ call.op = "save_contract"
        /\ \/ call.arg.team_id = "None"
           \/ IsMember(call.arg.rows, call.arg.user, call.arg.team_id)
        /\ SameName(call.arg.rows, call.arg.user,
                    call.arg.contract_name) # {})
          => (call.result.status = 409 /\ db = call.arg.rows)
    /\ (/\ call.pc = "done" /\ call.op = "update_contract"
        /\ call.arg.contract_id \in DOMAIN call.arg.rows.contracts
        /\ MayAccess(call.arg.rows, call.arg.user,
                     call.arg.rows.contracts[call.arg.contract_id])
        /\ call.arg.contract_name # "None"
        /\ call.arg.contract_name #
              call.arg.rows.contracts[call.arg.contract_id].contract_name
        /\ SameName(call.arg.rows, call.arg.user, call.arg.contract_name)
              \ {call.arg.contract_id} # {})
          => (call.result.status = 409 /\ db = call.arg.rows)

\* the stored session a cookie matches, when it has not expired
LiveSession(rows, session_token) ==
    {s \in rows.user_sessions :
        s.token = session_token /\ s.expires_at >= rows.utc_now}

LoggedOut(t) ==
    call.pc = "done" /\ call.op = "logout" /\ call.arg.session_token = t

Rejected(t) ==
    /\ call.pc = "done" /\ call.op = "protected" /\ call.arg.session_token = t
       => call.result.status = 401
    /\ call.pc = "done" /\ call.op = "get_me" /\ call.arg.session_token = t
       => call.result.user = "None"

\* C21: a protected endpoint accepts a request exactly when its
\* session_token cookie matches a stored session that has not expired,
\* answers 401 otherwise and then leaves no expired session for the cookie;
\* and from the moment logout was called with a token on, every protected
\* request with that token is answered 401 and every /auth/me with it
\* reports no user.
C21_SessionDecidesAndLogoutIsFinal ==
    /\ [][call'.op = "protected" =>
            /\ call'.result.status \in {200, 401}
            /\ call'.result.status = 200 <=>
                   LiveSession(db, call'.arg.session_token) # {}
            /\ call'.result.status = 401 =>
                   \A s \in db'.user_sessions :
                       s.token = call'.arg.session_token =>
                           s.expires_at >= db'.utc_now]_vars
    /\ \A t \in Tokens : [](LoggedOut(t) => []Rejected(t))

\* a protected request with a token that was issued, and dropped by logout
\* (no session has lived long enough to expire), is answered 401 while
\* another session lives
C21_Witness ==
    /\ call.pc = "done" /\ call.op = "protected"
    /\ call.arg.session_token \in db.issued
    /\ db.utc_now < SESSION_MAX_AGE
    /\ call.result.status = 401
    /\ db.user_sessions # {}

\* signup with matching passwords of at least 8 characters that hold a
\* letter and a digit
WellFormedSignup(arg) ==
    /\ arg.password.text = arg.password_confirm.text
    /\ arg.password.len >= 8
    /\ arg.password.letter /\ arg.password.digit

\* a code sent to the e-mail has been verified, and the e-mail has no user
MaySignUp(rows, email) ==
    /\ \E x \in rows.verification_codes : x.email = email /\ x.is_used
    /\ RowsWith(rows.users, "email", email) = {}

\* C22: after any send-code and verify-code calls, a signup with matching
\* passwords of at least 8 characters holding a letter and a digit succeeds
\* (200, the user created, a session cookie set) exactly when a code for the
\* e-mail has been verified and the e-mail has no user yet; in every other
\* case it answers 400 and creates no user.
C22_SignupIffVerifiedAndNew ==
    [][call'.op = "signup" /\ WellFormedSignup(call'.arg) =>
          IF MaySignUp(db, call'.arg.email)
          THEN /\ call'.result.status = 200
               /\ call'.result.cookie # 0
               /\ RowsWith(db'.users, "email", call'.arg.email) # {}
          ELSE /\ call'.result.status = 400
               /\ db'.users = db.users]_vars

\* the caller wrote the comment, or the comment is on a team contract and
\* the caller is an owner or an admin of that team
AuthorOrDeleteAny(rows, user, comment) ==
    \/ comment.user_id = user
    \/ LET contract == rows.contracts[comment.contract_id]
       IN  /\ contract.team_id # "None"
           /\ \E m \in rows.team_members :
                 /\ m.team_id = contract.team_id
                 /\ m.user_id = user
                 /\ m.role \in {"owner", "admin"}

\* C23: a comment is edited only by its author, any other user who asks
\* being answered 403 with the content unchanged; and it is deleted only by
\* its author or, on a team contract, by an owner or admin of the team
\* (the roles with comment.delete_any), any other caller being answered an
\* error with the comment still stored.
C23_OnlyAuthorEditsAndPrivilegedDelete ==
    [][\A c \in db.comments :
          /\ (c \notin db'.comments /\ \E d \in db'.comments : d.id = c.id)
             => /\ call'.op = "update_comment"
                /\ call'.arg.user = c.user_id
          /\ (call'.op = "update_comment"
              /\ call'.arg.comment_id = c.id
              /\ call'.arg.contract_id = c.contract_id
              /\ call'.arg.user # c.user_id)
             => /\ call'.result.status = 403
                /\ db'.comments = db.comments
          /\ (~ \E d \in db'.comments : d.id = c.id)
             => /\ call'.op = "delete_comment"
                /\ AuthorOrDeleteAny(db, call'.arg.user, c)
          /\ (call'.op = "delete_comment"
              /\ call'.arg.comment_id = c.id
              /\ call'.arg.contract_id = c.contract_id
              /\ ~ AuthorOrDeleteAny(db, call'.arg.user, c))
             => /\ call'.result.status \in {403, 404}
                /\ db'.comments = db.comments]_vars

\* a member without comment.delete_any asked to delete the comment of
\* another user on a team contract, was answered 403, and the comment stays
C23_Witness ==
    /\ call.pc = "done" /\ call.op = "delete_comment"
    /\ call.result.status = 403
    /\ \E c \in db.comments :
          /\ c.id = call.arg.comment_id
          /\ c.contract_id = call.arg.contract_id
          /\ c.user_id # call.arg.user
          /\ db.contracts[c.contract_id].team_id # "None"
          /\ get_team_member(db, db.contracts[c.contract_id].team_id,
                             call.arg.user) # {}

\* the content has "@" followed by the e-mail of the user
MentionsEmail(content, user) ==
    \E i \in DOMAIN content.mentions : content.mentions[i].email = user

\* C24: when a user posts a comment on a team contract, every other member
\* of the team gets exactly one notification for it, of type mention if the
\* comment @-mentions the member's e-mail and of type comment otherwise, and
\* the author gets none.
C24_OneNotificationPerOtherMember ==
    (/\ call.pc = "done" /\ call.op = "create_comment"
     /\ call.result.status = 200
     /\ db.contracts[call.arg.contract_id].team_id # "None")
    => \A u \in Users :
          LET given == call.result.notifications[u]
              team_id == db.contracts[call.arg.contract_id].team_id
          IN  /\ u = call.arg.user
                 => given.mention = 0 /\ given.comment = 0
              /\ (u # call.arg.user
                  /\ get_team_member(db, team_id, u) # {})
                 => IF MentionsEmail(call.arg.content, u)
                    THEN given.mention = 1 /\ given.comment = 0
                    ELSE given.mention = 0 /\ given.comment = 1

\* the task has a task_id and, written as text, it is the id given
HasTaskId(t, task_id) ==
    t.task_id.kind # "missing" /\ str(t.task_id) = task_id

\* the tasks of a list that do not have the id, in their order
RECURSIVE WithoutTaskId(_, _)
WithoutTaskId(tasks, task_id) ==
    IF tasks = <<>> THEN <<>>
    ELSE IF HasTaskId(Head(tasks), task_id)
    THEN WithoutTaskId(Tail(tasks), task_id)
    ELSE <<Head(tasks)>> \o WithoutTaskId(Tail(tasks), task_id)

\* C25: delete_task removes from the contract exactly the tasks whose
\* task_id is the id given and leaves every other task as it was and in its
\* place among the others; when no task has the id, or the contract has no
\* tasks, it answers 404 and the stored list is unchanged.
C25_DeleteTaskFrame ==
    [][call'.op = "delete_task" =>
          LET tasks == db.tasks[call'.arg.contract_id]
              rest == WithoutTaskId(tasks, call'.arg.task_id)
          IN  /\ call'.result.status \in {200, 404}
              /\ call'.result.status = 200 =>
                    /\ db'.tasks[call'.arg.contract_id] = rest
                    /\ \A i \in DOMAIN db.tasks :
                          i # call'.arg.contract_id =>
                              db'.tasks[i] = db.tasks[i]
              /\ rest = tasks =>
                    call'.result.status = 404 /\ db'.tasks = db.tasks
              /\ call'.result.status = 404 => db'.tasks = db.tasks]_vars

\* the places, in the order tried, of the scales at which the PNG of a page
\* is within the per-page ceiling
FittingScales(render) ==
    {i \in DOMAIN render : render[i] <= MAX_IMAGE_BYTES_PER_PAGE}

\* the render the claim names: the first that fits, else the one at 1.0
ExpectedRender(render) ==
    LET tried == <<20, 15, 10>>
        first == IF FittingScales(render) = {} THEN Len(tried)
                 ELSE CHOOSE i \in FittingScales(render) :
                          \A j \in FittingScales(render) : i <= j
    IN  [scale |-> tried[first], size |-> render[first]]

\* C26: for each page, rendering tries the scales 2.0, 1.5, 1.0 in that
\* order and returns the first PNG of at most MAX_IMAGE_BYTES_PER_PAGE
\* (4 MB); when none fits it returns the PNG at scale 1.0 although it is
\* over the ceiling; a page that rendered never gets a missing image.
C26_FirstFittingScale ==
    pdf.pc = "done" =>
        /\ \A k \in DOMAIN pdf.doc :
              pdf.doc[k].render # <<>> =>
                  /\ ~ IsRaise(_render_page_optimized(pdf.doc[k]))
                  /\ _render_page_optimized(pdf.doc[k]).value
                         = ExpectedRender(pdf.doc[k].render)
        /\ \A i \in DOMAIN pdf.result.images :
              LET image == pdf.result.images[i]
              IN  /\ pdf.doc[image.page].render # <<>>
                  /\ [scale |-> image.scale, size |-> image.size]
                         = ExpectedRender(pdf.doc[image.page].render)

\* a page that fits at no scale was returned at scale 1.0, over the
\* ceiling, and a page that fits only from 1.5 on was returned at 1.5
C26_Witness ==
    /\ pdf.pc = "done"
    /\ \E i \in DOMAIN pdf.result.images :
          /\ pdf.result.images[i].scale = 10
          /\ pdf.result.images[i].size > MAX_IMAGE_BYTES_PER_PAGE
    /\ \E i \in DOMAIN pdf.result.images :
          /\ pdf.result.images[i].scale = 15
          /\ pdf.doc[pdf.result.images[i].page].render[1]
                 > MAX_IMAGE_BYTES_PER_PAGE

\* the k-th little-endian 16-bit code unit of data, k from 1
CodeUnit(data, k) == data[2 * k - 1] + 256 * data[2 * k]

\* what the claim emits for one code unit
Emitted(unit) ==
    IF unit >= 32 /\ unit < 55296 THEN <<unit>>
    ELSE IF unit \in {13, 10} THEN <<10>>
    ELSE IF unit = 9 THEN <<9>>
    ELSE <<>>

\* the emissions of the first n code units, in code-unit order
RECURSIVE Decoded(_, _)
Decoded(data, n) ==
    IF n = 0 THEN <<>>
    ELSE Decoded(data, n - 1) \o Emitted(CodeUnit(data, n))

\* C27: the body decoder reads the bytes as consecutive little-endian
\* 16-bit code units, ignoring a trailing odd byte, and emits for each, in
\* order, the character itself in [0x20, 0xD800), a newline for 0x0D or
\* 0x0A, a tab for 0x09 and nothing otherwise; the output has at most
\* floor(len / 2) characters.
C27_BodytextDecoding ==
    (call.pc = "done" /\ call.op = "_extract_text_from_bodytext") =>
        /\ call.result = Decoded(call.arg, Len(call.arg) \div 2)
        /\ Len(call.result) <= Len(call.arg) \div 2

\* an odd number of bytes whose code unit 0xD7FF is kept, and four bytes
\* of which 0xD800 is skipped and 0x0D became a newline
C27_Witness ==
    /\ call.pc = "done"
    /\ call.op = "_extract_text_from_bodytext"
    /\ \/ call.arg = <<255, 215, 32>> /\ call.result = <<55295>>
       \/ call.arg = <<0, 216, 13, 0>> /\ call.result = <<10>>

\* the permission of TEAM_PERMISSIONS that matches a contracts.py request
MatchingPermission(op) ==
    CASE op = "save_contract" -> "contract.create"
      [] op = "update_contract" -> "contract.update"
      [] op = "add_task" -> "task.create"
      [] op = "delete_task" -> "task.delete"

\* the team of the contract a request is about, "None" for a personal one
TeamOfRequest(rows, request) ==
    IF request.op = "save_contract" THEN request.arg.team_id
    ELSE IF request.arg.contract_id \in DOMAIN rows.contracts
    THEN rows.contracts[request.arg.contract_id].team_id
    ELSE "None"

\* C28: on a team contract a request is served only if the caller's role
\* in the team carries the matching permission of TEAM_PERMISSIONS; a
\* viewer cannot create a contract in the team, add or delete its tasks,
\* or update the contract.
C28_RoleCarriesPermission ==
    [][ (/\ call'.pc = "done"
         /\ call'.op \in {"save_contract", "update_contract", "add_task",
                          "delete_task"}
         /\ call'.result.status = 200
         /\ TeamOfRequest(db, call') # "None")
        => \E m \in db.team_members :
              /\ m.team_id = TeamOfRequest(db, call')
              /\ m.user_id = call'.arg.user
              /\ MatchingPermission(call'.op) \in TEAM_PERMISSIONS[m.role]
      ]_vars

\* the users with role owner in a team
OwnersOf(rows, team_id) ==
    {m.user_id : m \in {x \in rows.team_members :
                           x.team_id = team_id /\ x.role = "owner"}}

\* C29: after any sequence of create_team, invite_member, remove_member
\* and update_member_role, every team has exactly one owner, its creator:
\* a new team's owner is the user who created it, and no request changes
\* the owners of a team that exists.
C29_OneOwnerTheCreator ==
    /\ [] (\A team_id \in db.teams :
               Cardinality(OwnersOf(db, team_id)) = 1)
    /\ [][ \A team_id \in db'.teams :
               IF team_id \in db.teams
               THEN OwnersOf(db', team_id) = OwnersOf(db, team_id)
               ELSE /\ call'.op = "create_team"
                    /\ OwnersOf(db', team_id) = {call'.arg.user}
         ]_vars

\* an admin asked to remove the owner, the only one, and was refused
C29_Witness ==
    /\ call.pc = "done"
    /\ call.op = "remove_member"
    /\ call.result.status = 400
    /\ call.arg.target \in OwnersOf(db, call.arg.team_id)
    /\ \E m \in db.team_members :
          /\ m.team_id = call.arg.team_id
          /\ m.user_id = call.arg.user
          /\ m.role = "admin"
\* the requests answered 200
Added == {r \in AddRequests : call[r].pc = "done" /\ call[r].result.status = 200}

\* the task a request was answered with is stored in its contract
Stored(r) ==
    \E i \in DOMAIN db.tasks[call[r].arg.contract_id] :
        LET task == db.tasks[call[r].arg.contract_id][i]
        IN  /\ task.task_name = call[r].arg.task_name
            /\ task.task_id = JsonStr(call[r].result.task_id)

\* C30: for any interleaving of add_task requests on one contract, every
\* added task ends up stored, the task_ids given out are pairwise
\* distinct, and each new id is TASK- followed by the largest numeric id
\* stored in the contract plus one.
C30_ConcurrentAddsKeepEveryTask ==
    /\ [] (/\ \A r \in Added : Stored(r)
           /\ \A r1 \in Added, r2 \in Added :
                 r1 # r2 /\ call[r1].arg.contract_id = call[r2].arg.contract_id
                     => call[r1].result.task_id # call[r2].result.task_id)
    /\ [][ \A r \in AddRequests :
               (call[r].pc = "selected" /\ call'[r].pc = "done")
                   => call'[r].result.task_id =
                          new_task_id(db.tasks[call[r].arg.contract_id])
         ]_vars

====
